---- MODULE Spec2Model ----
(***************************************************************************)
(* A model of pass-rs: the block-streamed authenticated encryption of      *)
(* util/crypt, and the backup / rewrite / recover life cycle of the pass   *)
(* file driven by main.rs, recover.rs and util/file.rs.                    *)
(*                                                                         *)
(* Byte strings are sequences of numbers in 0..255.  The AEAD primitive     *)
(* (XChaCha20Poly1305 under aead::stream::StreamBE32) is a library; it is  *)
(* modelled as an ideal stream cipher with an ideal tag: the ciphertext is *)
(* the plaintext xor a key stream that depends on key and nonce, and the   *)
(* 16-byte tag is a digest of key, nonce, associated data and ciphertext.  *)
(***************************************************************************)
EXTENDS Integers, Sequences, FiniteSets, TLC

(***************************************************************************)
(* Program constants.                                                      *)
(***************************************************************************)
PLAIN_BLOCK_LEN == 4096
TAG_LEN == 16
ENCRYPTED_BLOCK_LEN == PLAIN_BLOCK_LEN + TAG_LEN
SALT_LEN == 16
NONCE_LEN == 19
KEY_LEN == 32
HEADER_LEN == SALT_LEN + NONCE_LEN

(***************************************************************************)
(* Bounds of the model.                                                    *)
(***************************************************************************)
\* plaintexts of the encryption checks span up to MaxBlocks full blocks + 1
MaxBlocks == 2
\* plaintext contents are drawn from the patterns 0..MaxSeed
MaxSeed == 0

(***************************************************************************)
(* Byte-string helpers.                                                    *)
(***************************************************************************)
Min(a, b) == IF a <= b THEN a ELSE b
Take(s, n) == SubSeq(s, 1, Min(n, Len(s)))
Drop(s, n) == SubSeq(s, n + 1, Len(s))

Bit(a, k) == (a \div (2 ^ k)) % 2
XorBits(a, b) ==
      ((Bit(a, 0) + Bit(b, 0)) % 2)       + 2 * ((Bit(a, 1) + Bit(b, 1)) % 2)
    + 4 * ((Bit(a, 2) + Bit(b, 2)) % 2)   + 8 * ((Bit(a, 3) + Bit(b, 3)) % 2)
    + 16 * ((Bit(a, 4) + Bit(b, 4)) % 2)  + 32 * ((Bit(a, 5) + Bit(b, 5)) % 2)
    + 64 * ((Bit(a, 6) + Bit(b, 6)) % 2)  + 128 * ((Bit(a, 7) + Bit(b, 7)) % 2)
\* the xor of two bytes, tabulated
XorTable == [a \in 0..255 |-> [b \in 0..255 |-> XorBits(a, b)]]
Xor(a, b) == XorTable[a][b]

RECURSIVE Sum(_, _, _)
Sum(s, lo, hi) ==
    IF lo > hi THEN 0
    ELSE IF lo = hi THEN s[lo]
    ELSE LET mid == (lo + hi) \div 2 IN Sum(s, lo, mid) + Sum(s, mid + 1, hi)

RECURSIVE WSum(_, _, _)
WSum(s, lo, hi) ==
    IF lo > hi THEN 0
    ELSE IF lo = hi THEN (lo * s[lo]) % 256
    ELSE LET mid == (lo + hi) \div 2 IN WSum(s, lo, mid) + WSum(s, mid + 1, hi)

Dig(s) == Sum(s, 1, Len(s)) % 256
WDig(s) == WSum(s, 1, Len(s)) % 256

BE32(n) == << (n \div 16777216) % 256, (n \div 65536) % 256, (n \div 256) % 256, n % 256 >>

(***************************************************************************)
(* util/crypt/header.rs: a header is a salt and a nonce of random bytes.   *)
(* rand_bytes is modelled by two possible draws.                           *)
(***************************************************************************)
HeaderIds == {0, 1}
\* the draw of a header that a rewrite generates
FreshHeaderIds == {1}
rand_bytes(n, draw) == [i \in 1..n |-> (draw * 29 + i * 5 + n) % 256]
Header_generate(id) == [salt |-> rand_bytes(SALT_LEN, id), nonce |-> rand_bytes(NONCE_LEN, id)]
Headers == {Header_generate(id) : id \in HeaderIds}
\* Header::write_to: the salt, then the nonce
Header_bytes(head) == head.salt \o head.nonce
\* Header::read_from: read_exact of the salt, then of the nonce
Header_read_from(bytes) ==
    IF Len(bytes) < HEADER_LEN
    THEN [ok |-> FALSE, head |-> [salt |-> <<>>, nonce |-> <<>>]]
    ELSE [ok |-> TRUE,
          head |-> [salt |-> Take(bytes, SALT_LEN),
                    nonce |-> SubSeq(bytes, SALT_LEN + 1, HEADER_LEN)]]

(***************************************************************************)
(* util/crypt/key.rs: a key is KEY_LEN bytes hashed from the password and  *)
(* the header's salt (argon2::hash_raw, modelled by a deterministic mix).  *)
(***************************************************************************)
Passwords == {<<97>>, <<98>>}
Key_from_password(pw, head) ==
    [i \in 1..KEY_LEN |-> (Dig(pw) * 31 + WDig(head.salt) * 7 + i * i) % 256]
Keys == {Key_from_password(pw, h) : pw \in Passwords, h \in Headers}

(***************************************************************************)
(* The AEAD stream primitive used by CryptCtx (StreamBE32): the nonce of a  *)
(* block is the header's nonce, the big-endian block counter and the       *)
(* last-block flag.                                                        *)
(***************************************************************************)
StreamNonce(head, position, last) == head.nonce \o BE32(position) \o <<last>>

\* the key stream of a block: byte i is (KeyStreamSeed + 37 * i) mod 256
KeyStreamSeed(key, nonce24) == (Dig(key) + WDig(nonce24)) % 256
KeyStream(seed, i) == (seed + 37 * i) % 256

\* a variant of the tag that does not cover the ciphertext
Mac_without_ciphertext(key, nonce24, aad, ct) ==
    << Dig(key), WDig(key), key[1], key[KEY_LEN],
       Dig(nonce24), WDig(nonce24), Dig(aad), WDig(aad),
       0, 0, Len(ct) % 256, (Len(ct) \div 256) % 256,
       0, 0, 0, 0 >>

\* the 16-byte tag of a sealed block: it covers the key, the nonce, the
\* associated data and the ciphertext
Mac(key, nonce24, aad, ct) ==
    << Dig(key), WDig(key), key[1], key[KEY_LEN],
       Dig(nonce24), WDig(nonce24), Dig(aad), WDig(aad),
       Dig(ct), WDig(ct), Len(ct) % 256, (Len(ct) \div 256) % 256,
       0, 0, 0, 0 >>

\* seals msg: ciphertext followed by the 16-byte tag
aead_encrypt(key, nonce24, aad, msg) ==
    LET seed == KeyStreamSeed(key, nonce24)
        ct == [i \in 1..Len(msg) |-> Xor(msg[i], KeyStream(seed, i))]
    IN  ct \o Mac(key, nonce24, aad, ct)

\* opens a sealed block: fails unless the tag matches
aead_decrypt(key, nonce24, aad, block) ==
    IF Len(block) < TAG_LEN THEN [ok |-> FALSE, msg |-> <<>>]
    ELSE LET ct == Take(block, Len(block) - TAG_LEN)
             tag == Drop(block, Len(block) - TAG_LEN)
             seed == KeyStreamSeed(key, nonce24)
         IN  IF tag = Mac(key, nonce24, aad, ct)
             THEN [ok |-> TRUE,
                   msg |-> [i \in 1..Len(ct) |-> Xor(ct[i], KeyStream(seed, i))]]
             ELSE [ok |-> FALSE, msg |-> <<>>]

\* EncryptorBE32::encrypt_next: the block at `position`, never flagged last;
\* the salt is the associated data (payload_with)
encrypt_next(key, head, position, block) ==
    aead_encrypt(key, StreamNonce(head, position, 0), head.salt, block)

\* DecryptorBE32::decrypt_next
decrypt_next(key, head, position, block) ==
    aead_decrypt(key, StreamNonce(head, position, 0), head.salt, block)

(***************************************************************************)
(* util/crypt/mod.rs: CryptCtx::encrypt and CryptCtx::decrypt.             *)
(***************************************************************************)
\* one iteration of the loop of encrypt: the block sealed from the head of
\* src, whether it is the last one, and what is left of src
encrypt_step(src, position, key, head) ==
    LET at_last_block == Len(src) <= PLAIN_BLOCK_LEN
        block == IF at_last_block THEN src ELSE Take(src, PLAIN_BLOCK_LEN)
    IN  [crypted_block |-> encrypt_next(key, head, position, block),
         at_last_block |-> at_last_block,
         rest |-> IF at_last_block THEN <<>> ELSE Drop(src, PLAIN_BLOCK_LEN)]

\* dest.write_all of a block that fails may have written a part of it
PartialWrite(block) == Take(block, Len(block) \div 2)

\* encrypt(src, dest): failAt = n > 0 makes the n-th write_all fail
RECURSIVE encrypt_loop(_, _, _, _, _)
encrypt_loop(src, position, key, head, failAt) ==
    IF src = <<>> THEN [ok |-> TRUE, err |-> "none", out |-> <<>>]
    ELSE LET step == encrypt_step(src, position, key, head)
         IN  IF failAt = position + 1
             THEN [ok |-> FALSE, err |-> "WritingBlock",
                   out |-> PartialWrite(step.crypted_block)]
             ELSE IF step.at_last_block
             THEN [ok |-> TRUE, err |-> "none", out |-> step.crypted_block]
             ELSE LET more == encrypt_loop(step.rest, position + 1, key, head, failAt)
                  IN  [more EXCEPT !.out = step.crypted_block \o @]

encrypt(src, key, head, failAt) == encrypt_loop(src, 0, key, head, failAt)

\* src.read(&mut crypted_block): a source hands over at most `cap` bytes a call
read_len_of(src, cap) == Min(Len(src), Min(cap, ENCRYPTED_BLOCK_LEN))

\* a variant that takes a full block for the last one too
decrypt_at_last_block_le(read_len) == read_len <= ENCRYPTED_BLOCK_LEN

\* whether decrypt takes a block of read_len bytes for the last one
decrypt_at_last_block(read_len) == read_len < ENCRYPTED_BLOCK_LEN

\* decrypt(src): `at` is the position of the block that failed
RECURSIVE decrypt_loop(_, _, _, _, _)
decrypt_loop(src, position, key, head, cap) ==
    LET read_len == read_len_of(src, cap)
    IN  IF read_len = 0 THEN [ok |-> TRUE, err |-> "none", at |-> 0, data |-> <<>>]
        ELSE LET at_last_block == decrypt_at_last_block(read_len)
                 opened == decrypt_next(key, head, position, Take(src, read_len))
             IN  IF ~opened.ok
                 THEN [ok |-> FALSE, err |-> "DecryptingBlock", at |-> position,
                       data |-> <<>>]
                 ELSE IF at_last_block
                 THEN [ok |-> TRUE, err |-> "none", at |-> 0, data |-> opened.msg]
                 ELSE LET more == decrypt_loop(Drop(src, read_len), position + 1,
                                               key, head, cap)
                      IN  IF more.ok THEN [more EXCEPT !.data = opened.msg \o @]
                          ELSE more

decrypt(src, key, head, cap) == decrypt_loop(src, 0, key, head, cap)

\* a File hands over every byte asked for, up to the end of the file
FILE_READ_CAP == ENCRYPTED_BLOCK_LEN

(***************************************************************************)
(* The encryption checks: a plaintext, a header and a key are drawn, the   *)
(* plaintext is encrypted, the stream is possibly cut at a block boundary  *)
(* or has one bit flipped, and it is decrypted.                            *)
(***************************************************************************)
VARIABLES cphase, cplain, chead, ckey, cwrote, cstream, calt, cdkey, cres

cvars == <<cphase, cplain, chead, ckey, cwrote, cstream, calt, cdkey, cres>>

\* the state of the life cycle of the pass file (see below)
VARIABLES
    cmd,    \* the command of the current run
    runs,   \* the number of runs started
    forks,  \* the number of processes forked
    dir,    \* the inode behind the main path and behind the backup path (0: none)
    ino,    \* the content of every inode
    ofd,    \* the open file description of the run: its inode and offset
    proc,   \* the state of the main process and of the forked child
    g       \* history of the run, for the statements below

fvars == <<cmd, runs, forks, dir, ino, ofd, proc, g>>

\* the state of the checks of util/secret (see below)
VARIABLES
    sowner, \* who owns the payload: "none", "Secret" or "bare"
    sobj, \* the payload
    sbefore, \* the payload as it was before the last erase
    sop, \* the last operation and how it ended
    skey, \* the key held by the Secret of over_encrypt_with_input
    sreleased  \* the storages the last operation released, as they were left

svars == <<sowner, sobj, sbefore, sop, skey, sreleased>>

\* the state of a call of with_secured_mem (see below)
VARIABLES
    mpc, \* where the call is: "secure", "body", "expose", "done"
    mlinux, \* whether the build targets Linux
    mcmd, \* the file command that is the body
    mlocked, \* whether the pages of the process are locked
    mdumps, \* whether core dumps are enabled
    mresult, \* the result of the body, "none" if it did not run
    mout, \* what the call returned
    mwarn  \* the warnings printed

mvars == <<mpc, mlinux, mcmd, mlocked, mdumps, mresult, mout, mwarn>>

\* the record tree of an edit session (see below)
VARIABLES
    tnodes, \* the records: kind, name, value, parent and members of each node
    troot, \* the node that is the root record
    tprev, \* the records as they were before the last operation
    tlast  \* the last operation and what it returned

tvars == <<tnodes, troot, tprev, tlast>>

\* the state of a fuzzy lookup (see below)
VARIABLES
    qms, \* the matches of the members, in the order they are visited
    qres  \* what get_fuzzy returned

qvars == <<qms, qres>>

\* the backup names computed so far (see below)
VARIABLES
    bcwd, \* the working directory of the process
    bcalls  \* the calls of backup_path_from made: the absolute form of the path and the result

bvars == <<bcwd, bcalls>>

\* the state of a call of CryptCtx::decrypt, one read at a time (see below)
VARIABLES
    dpc, \* where the call is: "idle", "loop" or "done"
    dstream, \* the bytes the source delivers, all of them
    dsrc, \* the bytes the source has yet to deliver
    dhead, \* the header of the context
    dkey, \* the key of the context
    dposition, \* the counter of the cryptor
    dresult, \* the bytes held by the Secret `result`
    dshort, \* whether a read returned fewer bytes than were asked for and left
    dret, \* what decrypt returned
    dreleased  \* the storages released so far, as they were left

dvars == <<dpc, dstream, dsrc, dhead, dkey, dposition, dresult, dshort, dret, dreleased>>

\* the state of a call of over_encrypt on its own (see below)
VARIABLES
    rpc, \* where the call is: "idle", "start", "clear", "header", "block" or "done"
    rprev, \* the content of the file when over_encrypt is called
    rfile, \* the content of the file
    rpos, \* the position of the open file
    rdata, \* the plaintext to write
    rpw, \* the password
    rhead, \* the header generated
    rsrc, \* what is left of the plaintext in the loop of encrypt
    rposition, \* the counter of the cryptor
    rret  \* what over_encrypt returned

rvars == <<rpc, rprev, rfile, rpos, rdata, rpw, rhead, rsrc, rposition, rret>>

xvars == <<svars, mvars, tvars, qvars, bvars, dvars, rvars>>
vars == <<cphase, cplain, chead, ckey, cwrote, cstream, calt, cdkey, cres,
          cmd, runs, forks, dir, ino, ofd, proc, g,
          sowner, sobj, sbefore, sop, skey, sreleased,
          mpc, mlinux, mcmd, mlocked, mdumps, mresult, mout, mwarn,
          tnodes, troot, tprev, tlast,
          qms, qres,
          bcwd, bcalls,
          dpc, dstream, dsrc, dhead, dkey, dposition, dresult, dshort, dret, dreleased,
          rpc, rprev, rfile, rpos, rdata, rpw, rhead, rsrc, rposition, rret>>

\* for each added part, the variables of every other part
osvars == <<cvars, fvars, mvars, tvars, qvars, bvars, dvars, rvars>>
omvars == <<cvars, fvars, svars, tvars, qvars, bvars, dvars, rvars>>
otvars == <<cvars, fvars, svars, mvars, qvars, bvars, dvars, rvars>>
oqvars == <<cvars, fvars, svars, mvars, tvars, bvars, dvars, rvars>>
obvars == <<cvars, fvars, svars, mvars, tvars, qvars, dvars, rvars>>
odvars == <<cvars, fvars, svars, mvars, tvars, qvars, bvars, rvars>>
orvars == <<cvars, fvars, svars, mvars, tvars, qvars, bvars, dvars>>

\* a value of the secret checks: a tag, its bytes, its name and its
\* children (a byte buffer has no name and no children)
NoObj == [t |-> "none", b |-> <<>>, name |-> <<>>, kids |-> <<>>]

SIdleVars ==
    /\ sowner = "none"
    /\ sobj = NoObj
    /\ sbefore = NoObj
    /\ sop = <<"idle", "">>
    /\ skey = NoObj
    /\ sreleased = {}

MIdleVars ==
    /\ mpc = "idle"
    /\ mlinux = TRUE
    /\ mcmd = "none"
    /\ mlocked = FALSE
    /\ mdumps = TRUE
    /\ mresult = "none"
    /\ mout = "none"
    /\ mwarn = {}

TIdleVars ==
    /\ tnodes = <<>>
    /\ troot = 0
    /\ tprev = <<>>
    /\ tlast = <<>>

QIdleVars ==
    /\ qms = <<>>
    /\ qres = <<>>

BIdleVars ==
    /\ bcwd = <<>>
    /\ bcalls = <<>>

DIdleVars ==
    /\ dpc = "idle"
    /\ dstream = <<>>
    /\ dsrc = <<>>
    /\ dhead = Header_generate(0)
    /\ dkey = <<>>
    /\ dposition = 0
    /\ dresult = <<>>
    /\ dshort = FALSE
    /\ dret = [ok |-> FALSE, err |-> "none", at |-> 0, data |-> <<>>]
    /\ dreleased = {}

RIdleVars ==
    /\ rpc = "idle"
    /\ rprev = <<>>
    /\ rfile = <<>>
    /\ rpos = 0
    /\ rdata = <<>>
    /\ rpw = <<>>
    /\ rhead = Header_generate(0)
    /\ rsrc = <<>>
    /\ rposition = 0
    /\ rret = "none"

\* for each added part, every other added part is idle
OSIdle == MIdleVars /\ TIdleVars /\ QIdleVars /\ BIdleVars /\ DIdleVars /\ RIdleVars
OMIdle == SIdleVars /\ TIdleVars /\ QIdleVars /\ BIdleVars /\ DIdleVars /\ RIdleVars
OTIdle == SIdleVars /\ MIdleVars /\ QIdleVars /\ BIdleVars /\ DIdleVars /\ RIdleVars
OQIdle == SIdleVars /\ MIdleVars /\ TIdleVars /\ BIdleVars /\ DIdleVars /\ RIdleVars
OBIdle == SIdleVars /\ MIdleVars /\ TIdleVars /\ QIdleVars /\ DIdleVars /\ RIdleVars
ODIdle == SIdleVars /\ MIdleVars /\ TIdleVars /\ QIdleVars /\ BIdleVars /\ RIdleVars
ORIdle == SIdleVars /\ MIdleVars /\ TIdleVars /\ QIdleVars /\ BIdleVars /\ DIdleVars

XIdleVars == SIdleVars /\ MIdleVars /\ TIdleVars /\ QIdleVars /\ BIdleVars /\ DIdleVars /\ RIdleVars

PlainLens == {0, 1} \cup {k * PLAIN_BLOCK_LEN + d : k \in 1..MaxBlocks, d \in {-1, 0, 1}}
Plaintext(n, seed) == [i \in 1..n |-> (seed * 61 + i * 3) % 256]
Plaintexts == {Plaintext(n, seed) : n \in PlainLens, seed \in 0..MaxSeed}

\* the number of sealed blocks of a stream of n bytes, and their extents
NumSealed(n) == (n + ENCRYPTED_BLOCK_LEN - 1) \div ENCRYPTED_BLOCK_LEN
SealedStart(b) == b * ENCRYPTED_BLOCK_LEN
SealedLen(n, b) == Min(ENCRYPTED_BLOCK_LEN, n - SealedStart(b))
\* the number of blocks encrypt makes of a plaintext of n bytes
NumPlainBlocks(n) == (n + PLAIN_BLOCK_LEN - 1) \div PLAIN_BLOCK_LEN

NoAlt == [kind |-> "none", block |-> 0]
NoRes == [ok |-> FALSE, err |-> "none", at |-> 0, data |-> <<>>]
NoWrote == [ok |-> FALSE, err |-> "none"]

FlipBit(x, k) == IF Bit(x, k) = 1 THEN x - 2 ^ k ELSE x + 2 ^ k
FlipAt(stream, pos, k) == [stream EXCEPT ![pos] = FlipBit(@, k)]
\* the bytes of a sealed block that the checks flip a bit of: the first and
\* the last byte of the ciphertext and of the tag
FlipOffsets(len) == {o \in {1, len - TAG_LEN, len - TAG_LEN + 1, len} : o >= 1}
FlipBits == {0, 7}

CInitVars ==
    /\ cphase = "plain"
    /\ cplain \in Plaintexts
    /\ chead \in Headers
    /\ \E pw \in Passwords : ckey = Key_from_password(pw, chead)
    /\ cwrote = NoWrote
    /\ cstream = <<>>
    /\ calt = NoAlt
    /\ cdkey = <<>>
    /\ cres = NoRes

CIdleVars ==
    /\ cphase = "off"
    /\ cplain = <<>>
    /\ chead = Header_generate(0)
    /\ ckey = <<>>
    /\ cwrote = NoWrote
    /\ cstream = <<>>
    /\ calt = NoAlt
    /\ cdkey = <<>>
    /\ cres = NoRes

CEncrypt ==
    /\ cphase = "plain"
    /\ \E failAt \in 0..NumPlainBlocks(Len(cplain)) :
         LET r == encrypt(cplain, ckey, chead, failAt)
         IN  /\ cwrote' = [ok |-> r.ok, err |-> r.err]
             /\ cstream' = r.out
             /\ cphase' = IF r.ok THEN "sealed" ELSE "failed"
    /\ UNCHANGED <<cplain, chead, ckey, calt, cdkey, cres, fvars, xvars>>

\* the stream loses its last `n` sealed blocks
CTruncate ==
    /\ cphase = "sealed"
    /\ \E n \in 1..NumSealed(Len(cstream)) :
         LET keep == NumSealed(Len(cstream)) - n
         IN  /\ cstream' = Take(cstream, SealedStart(keep))
             /\ calt' = [kind |-> "trunc", block |-> keep]
    /\ cphase' = "altered"
    /\ UNCHANGED <<cplain, chead, ckey, cwrote, cdkey, cres, fvars, xvars>>

\* one bit of one sealed block is flipped
CFlip ==
    /\ cphase = "sealed"
    /\ \E b \in 0..(NumSealed(Len(cstream)) - 1) :
       \E o \in FlipOffsets(SealedLen(Len(cstream), b)), k \in FlipBits :
         /\ cstream' = FlipAt(cstream, SealedStart(b) + o, k)
         /\ calt' = [kind |-> "flip", block |-> b]
    /\ cphase' = "altered"
    /\ UNCHANGED <<cplain, chead, ckey, cwrote, cdkey, cres, fvars, xvars>>

\* the stream is decrypted under the header it was written with: an intact
\* stream under any key derived from that header, an altered one under the
\* key it was written with
CDecrypt ==
    /\ cphase \in {"sealed", "altered"}
    /\ \E pw \in Passwords :
         LET k == Key_from_password(pw, chead)
         IN  /\ cphase = "altered" => k = ckey
             /\ cdkey' = k
             /\ cres' = decrypt(cstream, k, chead, FILE_READ_CAP)
    /\ cphase' = "opened"
    /\ UNCHANGED <<cplain, chead, ckey, cwrote, cstream, calt, fvars, xvars>>

(***************************************************************************)
(* The life cycle of the pass file.  A run of the program is one command   *)
(* (FileCmd): maybe_recover, secure_mem, the command body, and for a       *)
(* Change command the backup protocol around the rewrite.  The clip        *)
(* command of an edit session forks a child process, which shares the open *)
(* file with its parent.                                                   *)
(***************************************************************************)
\* the variables of the life cycle are declared with those of the encryption checks

\* the program is run at most MaxRuns times, and forks at most MaxForks times
MaxRuns == 2
MaxForks == 1

Procs == {"main", "child"}
InodeIds == {1, 2, 3}
Cmds == {"Edit", "ChangePassword", "Read", "Create"}
\* the commands that ChangeCmd::exec runs
ChangeCmds == {"Edit", "ChangePassword"}
\* the content of a path that names no file
Absent == <<-1>>

FileIn(d, i, name) == IF d[name] = 0 THEN Absent ELSE i[d[name]]
Primary == FileIn(dir, ino, "main")
Backup == FileIn(dir, ino, "backup")

\* the serial form of the record tree in its version v; an edit command
\* turns the tree into its other version
Versions == {0, 1}
Doc(v) == Plaintext(3 + v, v)
\* bytes that are not UTF-8, which serial::parse rejects
BadDoc == <<255, 0>>
\* serial::parse
parse(bytes) ==
    IF \E v \in Versions : bytes = Doc(v)
    THEN [ok |-> TRUE, ver |-> CHOOSE v \in Versions : bytes = Doc(v)]
    ELSE [ok |-> FALSE, ver |-> 0]
\* serial::bytes_from
bytes_from(v) == Doc(v)

\* a pass file: the header, then the sealed blocks
PassFile(doc, pw, head) ==
    Header_bytes(head) \o encrypt(doc, Key_from_password(pw, head), head, 0).out

\* main.rs decrypt: reads the header, hashes the password, decrypts the rest
main_decrypt(bytes, pw, keyFault) ==
    LET h == Header_read_from(bytes)
    IN  IF ~h.ok THEN [ok |-> FALSE, err |-> "ReadingHeader", data |-> <<>>]
        ELSE IF keyFault THEN [ok |-> FALSE, err |-> "GeneratingKey", data |-> <<>>]
        ELSE LET r == decrypt(Drop(bytes, HEADER_LEN),
                              Key_from_password(pw, h.head), h.head, FILE_READ_CAP)
             IN  [ok |-> r.ok, err |-> r.err, data |-> r.data]

\* a write of `bytes` at offset `pos` of a file
Zeros(n) == [i \in 1..n |-> 0]
WriteAt(content, pos, bytes) ==
    LET padded == IF Len(content) < pos
                  THEN content \o Zeros(pos - Len(content)) ELSE content
    IN  Take(padded, pos) \o bytes \o Drop(padded, pos + Len(bytes))

\* an inode that no path and no open file names
FreeInode(d, o) == CHOOSE id \in InodeIds : id \notin {d.main, d.backup, o.ino}

IdleProc ==
    [pc |-> "idle", out |-> "none", res |-> "none",
     cleanup |-> "none", status |-> "Stopped", changes_made |-> FALSE,
     ver |-> 0, serial |-> <<>>, pw |-> <<>>,
     wsrc |-> <<>>, wkey |-> <<>>, whead |-> Header_generate(0), wposn |-> 0,
     target |-> <<>>, dirty |-> FALSE, ret |-> Absent, forked |-> FALSE]

NoRun ==
    [stale |-> FALSE, prim0 |-> Absent, bak0 |-> Absent, recovery |-> "none",
     orig |-> Absent, backed |-> FALSE,
     prevDirty |-> FALSE, prevOrig |-> Absent]

Alive(p) == proc[p].pc \notin {"idle", "done", "crashed"}

FInitVars ==
    /\ cmd = "none"
    /\ runs = 0
    /\ forks = 0
    /\ \E d \in {Doc(0), BadDoc} :
         ino = [id \in InodeIds |->
                  IF id = 1 THEN PassFile(d, <<97>>, Header_generate(0)) ELSE <<>>]
    /\ dir \in {[main |-> 1, backup |-> 0], [main |-> 0, backup |-> 0]}
    /\ dir.main = 0 => ino[1] = PassFile(Doc(0), <<97>>, Header_generate(0))
    /\ ofd = [ino |-> 0, pos |-> 0]
    /\ proc = [p \in Procs |-> IdleProc]
    /\ g = NoRun

FIdleVars ==
    /\ cmd = "none"
    /\ runs = 0
    /\ forks = 0
    /\ ino = [id \in InodeIds |-> <<>>]
    /\ dir = [main |-> 0, backup |-> 0]
    /\ ofd = [ino |-> 0, pos |-> 0]
    /\ proc = [p \in Procs |-> IdleProc]
    /\ g = NoRun

\* the process p returns `out` from the command: the run's result for p
Returned(r, out) ==
    [IdleProc EXCEPT !.pc = "done", !.out = out, !.cleanup = r.cleanup,
                     !.status = r.status, !.target = r.target, !.forked = r.forked]

\* the closure of the command ends with `res` in the process r; the values
\* it held are dropped
Closed(r, res) ==
    [IdleProc EXCEPT !.pc = "finish", !.res = res, !.status = r.status,
                     !.target = r.target, !.dirty = r.dirty, !.forked = r.forked]

\* the process r starts to rewrite the file with `src` under a new header
Rewriting(r, src, pw, head) ==
    [IdleProc EXCEPT !.pc = "w_clear", !.status = r.status, !.forked = r.forked,
                     !.pw = pw, !.whead = head, !.wkey = Key_from_password(pw, head),
                     !.wsrc = src, !.wposn = 0, !.target = PassFile(src, pw, head)]

(***************************************************************************)
(* A run starts: main() with a command for the pass file.  The files are   *)
(* what the run before left; inodes are renumbered.                        *)
(***************************************************************************)
StartRun ==
    /\ runs < MaxRuns
    /\ \A p \in Procs : ~Alive(p)
    /\ \E kind \in Cmds : cmd' = kind
    /\ runs' = runs + 1
    /\ dir' = [main |-> IF dir.main = 0 THEN 0 ELSE 1,
               backup |-> IF dir.backup = 0 THEN 0 ELSE 2]
    /\ ino' = [id \in InodeIds |->
                 IF id = 1 /\ dir.main # 0 THEN ino[dir.main]
                 ELSE IF id = 2 /\ dir.backup # 0 THEN ino[dir.backup]
                 ELSE <<>>]
    /\ ofd' = [ino |-> 0, pos |-> 0]
    /\ proc' = [p \in Procs |->
                  IF p = "main" THEN [IdleProc EXCEPT !.pc = "start"] ELSE IdleProc]
    /\ g' = [NoRun EXCEPT !.stale = (dir.backup # 0),
                          !.prim0 = Primary, !.bak0 = Backup,
                          !.prevDirty = (proc["main"].pc = "crashed" /\ proc["main"].dirty
                                           /\ cmd \in ChangeCmds),
                          !.prevOrig = IF proc["main"].pc = "crashed" /\ proc["main"].dirty
                                          /\ cmd \in ChangeCmds
                                       THEN g.orig ELSE Absent]
    /\ UNCHANGED <<forks, cvars, xvars>>

(***************************************************************************)
(* recover.rs maybe_recover, as called by FileCmd::exec: an error of it    *)
(* ends the command with RecoveringBackup before the body runs.            *)
(***************************************************************************)
\* a variant that goes on when the operator declines both questions
maybe_recover_lenient(exists, answer1, answer2, fault) ==
    IF exists = "error" THEN [ok |-> FALSE, did |-> "error", act |-> "none"]
    ELSE IF exists = "no" THEN [ok |-> TRUE, did |-> "none", act |-> "none"]
    ELSE IF answer1 = "error" THEN [ok |-> FALSE, did |-> "error", act |-> "none"]
    ELSE IF answer1 = "yes"
    THEN IF fault THEN [ok |-> FALSE, did |-> "error", act |-> "none"]
         ELSE [ok |-> TRUE, did |-> "recovered", act |-> "rename"]
    ELSE IF answer2 = "error" THEN [ok |-> FALSE, did |-> "error", act |-> "none"]
    ELSE IF answer2 = "yes"
    THEN IF fault THEN [ok |-> FALSE, did |-> "error", act |-> "none"]
         ELSE [ok |-> TRUE, did |-> "removed", act |-> "remove"]
    ELSE [ok |-> TRUE, did |-> "refused", act |-> "none"]

\* what maybe_recover does: `exists` is the answer of is_backed_up (or
\* "error"), `answer1` and `answer2` the operator's answers ("yes", "no",
\* or "error" when the input fails), `fault` whether the rename or the
\* removal fails
maybe_recover(exists, answer1, answer2, fault) ==
    IF exists = "error" THEN [ok |-> FALSE, did |-> "error", act |-> "none"]
    ELSE IF exists = "no" THEN [ok |-> TRUE, did |-> "none", act |-> "none"]
    ELSE IF answer1 = "error" THEN [ok |-> FALSE, did |-> "error", act |-> "none"]
    ELSE IF answer1 = "yes"
    THEN IF fault THEN [ok |-> FALSE, did |-> "error", act |-> "none"]
         ELSE [ok |-> TRUE, did |-> "recovered", act |-> "rename"]
    ELSE IF answer2 = "error" THEN [ok |-> FALSE, did |-> "error", act |-> "none"]
    ELSE IF answer2 = "yes"
    THEN IF fault THEN [ok |-> FALSE, did |-> "error", act |-> "none"]
         ELSE [ok |-> TRUE, did |-> "removed", act |-> "remove"]
    ELSE [ok |-> FALSE, did |-> "refused", act |-> "none"]

Answers == {"yes", "no", "error"}

MaybeRecover ==
    /\ proc["main"].pc = "start"
    /\ \E existsFault \in BOOLEAN, answer1 \in Answers, answer2 \in Answers,
          fault \in BOOLEAN :
         LET exists == IF existsFault THEN "error"
                       ELSE IF dir.backup # 0 THEN "yes" ELSE "no"
             r == maybe_recover(exists, answer1, answer2, fault)
         IN  /\ dir' = IF r.act = "rename" THEN [main |-> dir.backup, backup |-> 0]
                       ELSE IF r.act = "remove" THEN [dir EXCEPT !.backup = 0]
                       ELSE dir
             /\ g' = [g EXCEPT !.recovery = r.did]
             /\ proc' = [proc EXCEPT !["main"] =
                           IF r.ok THEN [@ EXCEPT !.pc = "secure"]
                           ELSE [Returned(@, "RecoveringBackup") EXCEPT
                                   !.ret = FileIn(dir, ino, "main")]]
    /\ UNCHANGED <<cmd, runs, forks, ino, ofd, cvars, xvars>>

\* with_secured_mem: proc::secure_mem before the body; its failure is returned
SecureMem ==
    /\ proc["main"].pc = "secure"
    /\ \E fault \in BOOLEAN :
         proc' = [proc EXCEPT !["main"] =
                    IF fault
                    THEN [Returned(@, "SecuringMemory") EXCEPT !.ret = Primary]
                    ELSE [@ EXCEPT !.pc = "open"]]
    /\ UNCHANGED <<cmd, runs, forks, dir, ino, ofd, g, cvars, xvars>>

(***************************************************************************)
(* The start of the body: open, then for Read and Change the password and  *)
(* decrypt.                                                                *)
(***************************************************************************)
\* a variant whose CreateWrite opens a file that exists
SafePath_open_create_over(creating, exists, fault) ==
    fault \/ (~creating /\ ~exists)

\* SafePath::open, whether it fails: Read and ReadWrite need the file,
\* CreateWrite (create_new) its absence
SafePath_open(creating, exists, fault) ==
    fault \/ (creating /\ exists) \/ (~creating /\ ~exists)

OpenFile ==
    /\ proc["main"].pc = "open"
    /\ \E fault \in BOOLEAN :
         LET creating == (cmd = "Create")
             fails == SafePath_open(creating, dir.main # 0, fault)
             fresh == FreeInode(dir, ofd)
         IN  IF fails
             THEN /\ proc' = [proc EXCEPT !["main"] =
                                [Returned(@, "OpeningFile") EXCEPT !.ret = Primary]]
                  /\ UNCHANGED <<dir, ino, ofd, g>>
             ELSE IF creating
             THEN /\ dir' = [dir EXCEPT !.main = fresh]
                  /\ ino' = [ino EXCEPT ![fresh] = <<>>]
                  /\ ofd' = [ino |-> fresh, pos |-> 0]
                  /\ g' = [g EXCEPT !.orig = Absent]
                  /\ proc' = [proc EXCEPT !["main"].pc = "input"]
             ELSE /\ ofd' = [ino |-> dir.main, pos |-> 0]
                  /\ g' = [g EXCEPT !.orig = Primary]
                  /\ proc' = [proc EXCEPT !["main"].pc = "decrypt"]
                  /\ UNCHANGED <<dir, ino>>
    /\ UNCHANGED <<cmd, runs, forks, cvars, xvars>>

\* input_pw::read, then main.rs decrypt; a Read command then prints and ends
Decrypt ==
    /\ proc["main"].pc = "decrypt"
    /\ \E pwFault \in BOOLEAN, keyFault \in BOOLEAN, pw \in Passwords :
         LET r == main_decrypt(ino[ofd.ino], pw, keyFault)
         IN  proc' = [proc EXCEPT !["main"] =
               IF pwFault
               THEN [Returned(@, "ReadingPassword") EXCEPT !.ret = Primary]
               ELSE IF ~r.ok
               THEN [Returned(@, r.err) EXCEPT !.ret = Primary]
               ELSE IF cmd = "Read"
               THEN [Returned(@, "Ok") EXCEPT !.ret = Primary]
               ELSE [@ EXCEPT !.pc = "backup", !.pw = pw, !.serial = r.data]]
    /\ ofd' = [ofd EXCEPT !.pos = Len(ino[ofd.ino])]
    /\ UNCHANGED <<cmd, runs, forks, dir, ino, g, cvars, xvars>>

(***************************************************************************)
(* ChangeCmd::exec: the backup, then the closure of the command.           *)
(***************************************************************************)
\* a variant whose copy is cut short without an error
make_backup_short(content, outcome) ==
    IF outcome = "ok" THEN [ok |-> TRUE, made |-> TRUE, content |-> PartialWrite(content)]
    ELSE [ok |-> FALSE, made |-> FALSE, content |-> <<>>]

\* SafePath::make_backup (fs::copy of the main path to the backup path): the
\* copy, or on a failure no backup file or a part of one
make_backup(content, outcome) ==
    IF outcome = "ok" THEN [ok |-> TRUE, made |-> TRUE, content |-> content]
    ELSE IF outcome = "fail_partial"
    THEN [ok |-> FALSE, made |-> TRUE, content |-> PartialWrite(content)]
    ELSE [ok |-> FALSE, made |-> FALSE, content |-> <<>>]

\* ChangeCmd::exec: a failure of make_backup is returned as MakingBackup
MakeBackup ==
    /\ proc["main"].pc = "backup"
    /\ \E outcome \in {"ok", "fail_none", "fail_partial"} :
         LET id == IF dir.backup # 0 THEN dir.backup ELSE FreeInode(dir, ofd)
             r == IF dir.main = 0 THEN make_backup(<<>>, "fail_none")
                  ELSE make_backup(ino[dir.main], outcome)
         IN  /\ IF r.made
                THEN /\ ino' = [ino EXCEPT ![id] = r.content]
                     /\ dir' = [dir EXCEPT !.backup = id]
                ELSE UNCHANGED <<ino, dir>>
             /\ g' = [g EXCEPT !.backed = r.ok]
             /\ proc' = [proc EXCEPT !["main"] =
                           IF r.ok
                           THEN [@ EXCEPT !.pc = IF cmd = "Edit" THEN "parse" ELSE "newpw"]
                           ELSE [Returned(@, "MakingBackup") EXCEPT !.ret = Primary]]
    /\ UNCHANGED <<cmd, runs, forks, ofd, cvars, xvars>>

\* Edit: serial::parse, Tui::new, tui.run sets the status to Running
Parse ==
    /\ proc["main"].pc = "parse"
    /\ LET r == parse(proc["main"].serial)
       IN  proc' = [proc EXCEPT !["main"] =
             IF r.ok
             THEN [@ EXCEPT !.pc = "tui", !.ver = r.ver, !.serial = <<>>,
                            !.status = "Running", !.changes_made = FALSE]
             ELSE Closed(@, "ParsingSerial")]
    /\ UNCHANGED <<cmd, runs, forks, dir, ino, ofd, g, cvars, xvars>>

(***************************************************************************)
(* tui/mod.rs: the commands of an edit session.                            *)
(***************************************************************************)
\* an edit command that changes the tree (remove, mkitm, mkgrp, chval)
TuiEdit(p) ==
    /\ proc[p].pc = "tui"
    /\ \E v \in Versions \ {proc[p].ver} :
         proc' = [proc EXCEPT ![p].ver = v, ![p].changes_made = TRUE]
    /\ UNCHANGED <<cmd, runs, forks, dir, ino, ofd, g, cvars, xvars>>

\* an edit command that leaves the tree as it is and still reaches the end
\* of EditCmd::exec: move, copy, or remove with no path that is found
TuiTouch(p) ==
    /\ proc[p].pc = "tui"
    /\ proc' = [proc EXCEPT ![p].changes_made = TRUE]
    /\ UNCHANGED <<cmd, runs, forks, dir, ino, ofd, g, cvars, xvars>>

\* clip: clip_timed forks; the parent goes on with the session
TuiClip ==
    /\ proc["main"].pc = "tui"
    /\ proc["child"].pc = "idle"
    /\ forks < MaxForks
    /\ forks' = forks + 1
    /\ proc' = [proc EXCEPT !["child"] =
                  [proc["main"] EXCEPT !.pc = "clipping", !.forked = TRUE]]
    /\ UNCHANGED <<cmd, runs, dir, ino, ofd, g, cvars, xvars>>

\* the child in clip_timed: secure_mem, Clipboard::new, hold.  ReadCmd::exec
\* sets the status to Clipped after `clip(data)?`: an error of the child
\* leaves exec before that, is printed by Tui::run, and the loop goes on
ClipHold ==
    /\ proc["child"].pc = "clipping"
    /\ \E fault \in BOOLEAN :
         proc' = [proc EXCEPT !["child"] =
                    IF fault THEN [@ EXCEPT !.pc = "tui"]
                    ELSE [@ EXCEPT !.pc = "save", !.status = "Clipped"]]
    /\ UNCHANGED <<cmd, runs, forks, dir, ino, ofd, g, cvars, xvars>>

\* exit, or the end of the input
TuiExit(p) ==
    /\ proc[p].pc = "tui"
    /\ proc' = [proc EXCEPT ![p].status = "Stopped", ![p].pc = "save"]
    /\ UNCHANGED <<cmd, runs, forks, dir, ino, ofd, g, cvars, xvars>>

\* abort
TuiAbort(p) ==
    /\ proc[p].pc = "tui"
    /\ proc' = [proc EXCEPT ![p].status = "Aborted", ![p].pc = "save"]
    /\ UNCHANGED <<cmd, runs, forks, dir, ino, ofd, g, cvars, xvars>>

\* the input fails: run returns ReadingInput
TuiInputError(p) ==
    /\ proc[p].pc = "tui"
    /\ proc' = [proc EXCEPT ![p] =
                  Closed([@ EXCEPT !.status = "Aborted"], "ReadingInput")]
    /\ UNCHANGED <<cmd, runs, forks, dir, ino, ofd, g, cvars, xvars>>

\* a variant that saves whatever the status
should_save_data_any_status(r) == r.changes_made

\* Tui::should_save_data
should_save_data(r) == r.status = "Stopped" /\ r.changes_made

\* after tui.run: serial::bytes_from and the start of over_encrypt
\* (Header::generate, Key::from_password), or nothing to save
Save(p) ==
    /\ proc[p].pc = "save"
    /\ IF should_save_data(proc[p])
       THEN \E serFault \in BOOLEAN, keyFault \in BOOLEAN, id \in FreshHeaderIds :
              LET head == Header_generate(id)
              IN  proc' = [proc EXCEPT ![p] =
                    IF serFault
                    THEN Closed(@, "SerialisingRecord")
                    ELSE IF keyFault
                    THEN Closed(@, "GeneratingKey")
                    ELSE Rewriting(@, bytes_from(proc[p].ver), proc[p].pw, head)]
       ELSE proc' = [proc EXCEPT ![p] = Closed(@, "Ok")]
    /\ UNCHANGED <<cmd, runs, forks, dir, ino, ofd, g, cvars, xvars>>

\* CreateCmd::exec: the serial form of an empty tree, or the validated input
CreateInput ==
    /\ proc["main"].pc = "input"
    /\ \E kind \in {"CreateEmpty", "Import"}, stdinFault \in BOOLEAN,
          input \in {Doc(v) : v \in Versions} \cup {BadDoc} :
         proc' = [proc EXCEPT !["main"] =
           IF kind = "CreateEmpty"
           THEN [@ EXCEPT !.pc = "newpw", !.serial = Doc(0)]
           ELSE IF stdinFault
           THEN Closed(@, "ReadingStdin")
           ELSE IF ~parse(input).ok
           THEN Closed(@, "InputSerial")
           ELSE [@ EXCEPT !.pc = "newpw", !.serial = input]]
    /\ UNCHANGED <<cmd, runs, forks, dir, ino, ofd, g, cvars, xvars>>

\* the start of over_encrypt_with_input: Header::generate and confirm_to_key
NewKey ==
    /\ proc["main"].pc = "newpw"
    /\ \E inputFault \in BOOLEAN, keyFault \in BOOLEAN, id \in FreshHeaderIds,
          pw \in Passwords :
         LET head == Header_generate(id)
         IN  proc' = [proc EXCEPT !["main"] =
               IF inputFault
               THEN Closed(@, "ReadingPassword")
               ELSE IF keyFault
               THEN Closed(@, "GeneratingKey")
               ELSE Rewriting(@, proc["main"].serial, pw, head)]
    /\ UNCHANGED <<cmd, runs, forks, dir, ino, ofd, g, cvars, xvars>>

(***************************************************************************)
(* over_encrypt and over_encrypt_with_input: file::clear, Header::write_to *)
(* and the loop of CryptCtx::encrypt, one write at a time.                 *)
(***************************************************************************)
\* a variant that rewinds the file without truncating it
file_clear_keep(content, outcome) == content

\* file::clear, what it leaves of the content: set_len(0), then rewind
file_clear(content, outcome) ==
    IF outcome = "set_len_fails" THEN content ELSE <<>>

\* file::clear: set_len(0), then rewind
WClear(p) ==
    /\ proc[p].pc = "w_clear"
    /\ \E outcome \in {"ok", "set_len_fails", "rewind_fails"} :
         /\ ino' = [ino EXCEPT ![ofd.ino] = file_clear(@, outcome)]
         /\ ofd' = IF outcome = "ok" THEN [ofd EXCEPT !.pos = 0] ELSE ofd
         /\ proc' = [proc EXCEPT ![p] =
                       IF outcome = "ok"
                       THEN [@ EXCEPT !.pc = "w_header", !.dirty = TRUE]
                       ELSE Closed([@ EXCEPT !.dirty = (outcome = "rewind_fails")],
                                   "ClearingFile")]
    /\ UNCHANGED <<cmd, runs, forks, dir, g, cvars, xvars>>

\* a write_all of `bytes` to the open file by process p: all of it, or on a
\* fault a part of it and the error `err`
WriteAll(p, bytes, fault, next, err) ==
    LET wrote == IF fault THEN PartialWrite(bytes) ELSE bytes
    IN  /\ ino' = [ino EXCEPT ![ofd.ino] = WriteAt(@, ofd.pos, wrote)]
        /\ ofd' = [ofd EXCEPT !.pos = @ + Len(wrote)]
        /\ proc' = [proc EXCEPT ![p] =
                      IF fault
                      THEN Closed(@, err)
                      ELSE next]

\* Header::write_to: write_all of the salt, then write_all of the nonce
WHeader(p) ==
    /\ proc[p].pc = "w_header"
    /\ \E failing \in {"none", "salt", "nonce"} :
         WriteAll(p, IF failing = "salt" THEN proc[p].whead.salt
                     ELSE Header_bytes(proc[p].whead),
                  failing # "none", [proc[p] EXCEPT !.pc = "w_block"], "WritingHeader")
    /\ UNCHANGED <<cmd, runs, forks, dir, g, cvars, xvars>>

\* one iteration of the loop of CryptCtx::encrypt
WBlock(p) ==
    /\ proc[p].pc = "w_block"
    /\ IF proc[p].wsrc = <<>>
       THEN /\ proc' = [proc EXCEPT ![p] = Closed(@, "Ok")]
            /\ UNCHANGED <<ino, ofd>>
       ELSE \E fault \in BOOLEAN :
              LET step == encrypt_step(proc[p].wsrc, proc[p].wposn,
                                       proc[p].wkey, proc[p].whead)
              IN  WriteAll(p, step.crypted_block, fault,
                           IF step.at_last_block
                           THEN Closed(proc[p], "Ok")
                           ELSE [proc[p] EXCEPT !.wsrc = step.rest,
                                                !.wposn = @ + 1],
                           "WritingBlock")
    /\ UNCHANGED <<cmd, runs, forks, dir, g, cvars, xvars>>

(***************************************************************************)
(* The end of the command.  ChangeCmd::exec: nothing after Ok(Clipped),    *)
(* remove_backup after any other Ok, recover after an Err; a failure of    *)
(* either is a warning.  CreateCmd::exec: remove the file after an Err.    *)
(***************************************************************************)
\* a variant that removes the backup after an error too
change_cleanup_remove_always(res, status) ==
    IF res = "Ok" /\ status = "Clipped" THEN "none" ELSE "remove_backup"

\* a variant that leaves the backup after every success
change_cleanup_keep_on_ok(res, status) ==
    IF res = "Ok" THEN "none" ELSE "recover"

\* what the end of ChangeCmd::exec does with the backup
change_cleanup(res, status) ==
    IF res = "Ok" /\ status = "Clipped" THEN "none"
    ELSE IF res = "Ok" THEN "remove_backup"
    ELSE "recover"

Finish(p) ==
    /\ proc[p].pc = "finish"
    /\ \E fault \in BOOLEAN :
         LET todo == IF cmd = "Create"
                     THEN IF proc[p].res = "Ok" THEN "none" ELSE "remove"
                     ELSE change_cleanup(proc[p].res, proc[p].status)
             fails == \/ fault
                      \/ (todo \in {"remove_backup", "recover"} /\ dir.backup = 0)
                      \/ (todo = "remove" /\ dir.main = 0)
             done == IF todo = "none" THEN "skipped"
                     ELSE IF fails THEN todo \o "_failed" ELSE todo \o "_ok"
         IN  /\ dir' = IF fails \/ todo = "none" THEN dir
                       ELSE IF todo = "remove_backup" THEN [dir EXCEPT !.backup = 0]
                       ELSE IF todo = "recover" THEN [main |-> dir.backup, backup |-> 0]
                       ELSE [dir EXCEPT !.main = 0]
             /\ proc' = [proc EXCEPT ![p] =
                           [Returned([@ EXCEPT !.cleanup = done], proc[p].res)
                              EXCEPT !.ret = FileIn(dir', ino, "main")]]
    /\ UNCHANGED <<cmd, runs, forks, ino, ofd, g, cvars, xvars>>

\* the run is interrupted: every process of it ends where it is
Crash ==
    /\ \E p \in Procs : Alive(p)
    /\ proc' = [p \in Procs |->
                  IF Alive(p)
                  THEN [IdleProc EXCEPT !.pc = "crashed", !.dirty = proc[p].dirty,
                                        !.forked = proc[p].forked]
                  ELSE proc[p]]
    /\ UNCHANGED <<cmd, runs, forks, dir, ino, ofd, g, cvars, xvars>>

Init == FInitVars /\ CIdleVars /\ XIdleVars

Next ==
    \/ StartRun \/ MaybeRecover \/ SecureMem \/ OpenFile \/ Decrypt
    \/ MakeBackup \/ Parse \/ TuiClip \/ ClipHold \/ CreateInput \/ NewKey
    \/ \E p \in Procs :
         \/ TuiEdit(p) \/ TuiTouch(p) \/ TuiExit(p) \/ TuiAbort(p)
         \/ TuiInputError(p) \/ Save(p)
         \/ WClear(p) \/ WHeader(p) \/ WBlock(p) \/ Finish(p)
    \/ Crash

Spec == Init /\ [][Next]_vars

CNext == CEncrypt \/ CTruncate \/ CFlip \/ CDecrypt

CInit == CInitVars /\ FIdleVars /\ XIdleVars

CryptSpec == CInit /\ [][CNext]_vars

(***************************************************************************)
(* util/secret: Secret and Erase.  A value is a record of a tag, its       *)
(* bytes, its name and its children: a byte buffer (Vec), a String and a   *)
(* Key have bytes only; an Item has a value (its bytes) and a name; a      *)
(* Group has a name and its members, in the order of their names (the keys *)
(* of the members map are borrowed from the members' names); a Map is a    *)
(* BTreeMap with owned keys, its entries held as name and bytes.           *)
(***************************************************************************)
\* byte strings of the checks have up to MaxLen bytes
MaxLen == 2
\* a group has up to MaxKids members
MaxKids == 2

ByteStr(n) == [i \in 1..n |-> 64 + i]
Strs == {ByteStr(n) : n \in 0..MaxLen}
Name(k) == <<96 + k>>

Vec_new(b) == [t |-> "Vec", b |-> b, name |-> <<>>, kids |-> <<>>]
String_new(b) == [t |-> "String", b |-> b, name |-> <<>>, kids |-> <<>>]
Key_new(b) == [t |-> "Key", b |-> b, name |-> <<>>, kids |-> <<>>]
Item_new(name, value) == [t |-> "Item", b |-> value, name |-> name, kids |-> <<>>]
Group_from(name, members) == [t |-> "Group", b |-> <<>>, name |-> name, kids |-> members]
Map_from(entries) == [t |-> "Map", b |-> <<>>, name |-> <<>>, kids |-> entries]

\* the member lists over the values S: at most one member of each name, in
\* the order of the names
MemberLists(S) ==
    { SelectSeq(f, LAMBDA x : x # NoObj) :
        f \in { h \in [1..MaxKids -> S \cup {NoObj}] :
                  \A k \in 1..MaxKids : h[k] = NoObj \/ h[k].name = Name(k) } }

GroupItems == {Item_new(Name(k), ByteStr(MaxLen)) : k \in 1..MaxKids}
InnerGroups == {Group_from(Name(k), q) : k \in 1..MaxKids, q \in MemberLists(GroupItems)}
Groups == {Group_from(Name(k), q) :
             k \in 1..MaxKids, q \in MemberLists(GroupItems \cup InnerGroups)}
Payloads ==
    {Vec_new(b) : b \in Strs} \cup {String_new(b) : b \in Strs}
    \cup {Item_new(Name(k), b) : k \in 1..MaxKids, b \in Strs}
    \cup Groups
    \cup {Map_from(q) : q \in MemberLists(GroupItems)}

\* impl Erase for Vec<u8>: every byte of the slice is set to 0
Vec_u8_erase_clear(b) == <<>>
Vec_u8_erase(b) == [i \in 1..Len(b) |-> 0]
\* impl Erase for String: the erase of its byte vector
String_erase(b) == Vec_u8_erase(b)
\* impl Erase for Metadata: the name is erased, the parent is left
Metadata_erase_skip(name) == name
Metadata_erase(name) == String_erase(name)

\* Erase::erase, by the type of the value: Vec<u8>, String and Key erase
\* their bytes in place; Item erases its value and its metadata; Group
\* erases its members (BTreeMap<&str, V>: every value, the entries stay)
\* and its metadata; BTreeMap<K, V> pops every entry and erases it
RECURSIVE erase(_)
erase(x) ==
    CASE x.t = "Vec" -> [x EXCEPT !.b = Vec_u8_erase(x.b)]
      [] x.t = "String" -> [x EXCEPT !.b = String_erase(x.b)]
      [] x.t = "Key" -> [x EXCEPT !.b = Vec_u8_erase(x.b)]
      [] x.t = "Item" -> [x EXCEPT !.b = String_erase(x.b),
                                   !.name = Metadata_erase(x.name)]
      [] x.t = "Group" -> [x EXCEPT !.kids = [i \in 1..Len(x.kids) |-> erase(x.kids[i])],
                                    !.name = Metadata_erase(x.name)]
      [] x.t = "Map" -> [x EXCEPT !.kids = <<>>]
      [] OTHER -> x

Storage(was, obj, by, fn) == [was |-> was, obj |-> obj, by |-> by, fn |-> fn]

\* the entries that the erase of a BTreeMap<K, V> pops: key and value are
\* erased, then dropped at the end of the iteration
erase_popped(x) ==
    IF x.t = "Map"
    THEN {Storage(x.kids[i],
                  [x.kids[i] EXCEPT !.b = String_erase(x.kids[i].b),
                                    !.name = String_erase(x.kids[i].name)],
                  "erase", "erase") : i \in 1..Len(x.kids)}
    ELSE {}

\* Drop for Secret: the payload is erased, then its destructor runs
Secret_drop(x, fn) == {Storage(x, erase(x), "Secret", fn)} \cup erase_popped(x)
\* the destructor of a value that no Secret owns
plain_drop(x, fn) == {Storage(x, x, "plain", fn)}

RECURSIVE AllZero(_)
AllZero(x) ==
    /\ \A i \in 1..Len(x.b) : x.b[i] = 0
    /\ \A i \in 1..Len(x.name) : x.name[i] = 0
    /\ \A i \in 1..Len(x.kids) : AllZero(x.kids[i])

RECURSIVE SameShape(_, _)
SameShape(x, y) ==
    /\ x.t = y.t
    /\ Len(x.b) = Len(y.b)
    /\ Len(x.name) = Len(y.name)
    /\ Len(x.kids) = Len(y.kids)
    /\ \A i \in 1..Len(x.kids) : SameShape(x.kids[i], y.kids[i])

SInitVars ==
    /\ sowner = "none"
    /\ sobj = NoObj
    /\ sbefore = NoObj
    /\ sop = <<"init", "">>
    /\ skey = NoObj
    /\ sreleased = {}

\* Secret::new
SNew ==
    /\ sowner = "none" /\ skey = NoObj
    /\ \E x \in Payloads : sobj' = x
    /\ sowner' = "Secret"
    /\ sbefore' = NoObj
    /\ sop' = <<"new", "">>
    /\ sreleased' = {}
    /\ UNCHANGED <<skey, osvars>>

\* Erase::erase on the payload
SErase ==
    /\ sowner # "none"
    /\ sbefore' = sobj
    /\ sobj' = erase(sobj)
    /\ sop' = <<"erase", "">>
    /\ sreleased' = erase_popped(sobj)
    /\ UNCHANGED <<sowner, skey, osvars>>

\* Secret::into_inner: the payload is moved out, nothing is erased
SIntoInner ==
    /\ sowner = "Secret"
    /\ sowner' = "bare"
    /\ sop' = <<"into_inner", "">>
    /\ sreleased' = {}
    /\ UNCHANGED <<sobj, sbefore, skey, osvars>>

\* the Secret goes out of scope
SDrop ==
    /\ sowner = "Secret"
    /\ sreleased' = Secret_drop(sobj, "drop")
    /\ sowner' = "none"
    /\ sobj' = NoObj
    /\ sbefore' = NoObj
    /\ sop' = <<"drop", "">>
    /\ UNCHANGED <<skey, osvars>>

\* a payload that was moved out of its Secret goes out of scope
SDropBare ==
    /\ sowner = "bare"
    /\ sreleased' = plain_drop(sobj, "drop")
    /\ sowner' = "none"
    /\ sobj' = NoObj
    /\ sbefore' = NoObj
    /\ sop' = <<"drop_bare", "">>
    /\ UNCHANGED <<skey, osvars>>

KeyOf(pw, head) == Key_new(Key_from_password(pw, head))

\* main.rs decrypt: the key is made a Secret as it is derived and dropped
\* when decrypt returns
KDecrypt ==
    /\ sowner = "none" /\ skey = NoObj
    /\ \E pw \in Passwords, head \in Headers,
          exit \in {"ReadingHeader", "GeneratingKey", "Crypt", "Ok"} :
         /\ sreleased' = IF exit \in {"ReadingHeader", "GeneratingKey"} THEN {}
                         ELSE Secret_drop(KeyOf(pw, head), "decrypt")
         /\ sop' = <<"decrypt", exit>>
    /\ UNCHANGED <<sowner, sobj, sbefore, skey, osvars>>

\* main.rs over_encrypt: the key is a plain Key, dropped when over_encrypt
\* returns
KOverEncrypt ==
    /\ sowner = "none" /\ skey = NoObj
    /\ \E pw \in Passwords, head \in Headers,
          exit \in {"GeneratingKey", "ClearingFile", "WritingHeader", "Crypt", "Ok"} :
         /\ sreleased' = IF exit = "GeneratingKey" THEN {}
                         ELSE plain_drop(KeyOf(pw, head), "over_encrypt")
         /\ sop' = <<"over_encrypt", exit>>
    /\ UNCHANGED <<sowner, sobj, sbefore, skey, osvars>>

\* input_pw.rs confirm_to_key, one round of its loop: both keys are made
\* Secrets; if they are equal the first is moved out to the caller, which
\* makes it a Secret again (main.rs over_encrypt_with_input)
KConfirmRound ==
    /\ sowner = "none" /\ skey = NoObj
    /\ \E pw1 \in Passwords, pw2 \in Passwords, head \in Headers,
          exit \in {"Input1", "Input2", "Compared"} :
         LET key == KeyOf(pw1, head)
             key_confirm == KeyOf(pw2, head)
         IN  CASE exit = "Input1" ->
                    /\ sreleased' = {}
                    /\ skey' = NoObj
                    /\ sop' = <<"confirm_to_key", "Input1">>
               [] exit = "Input2" ->
                    /\ sreleased' = Secret_drop(key, "confirm_to_key")
                    /\ skey' = NoObj
                    /\ sop' = <<"confirm_to_key", "Input2">>
               [] exit = "Compared" /\ key = key_confirm ->
                    /\ sreleased' = Secret_drop(key_confirm, "confirm_to_key")
                    /\ skey' = key
                    /\ sop' = <<"confirm_to_key", "Ok">>
               [] OTHER ->
                    /\ sreleased' = Secret_drop(key, "confirm_to_key")
                                    \cup Secret_drop(key_confirm, "confirm_to_key")
                    /\ skey' = NoObj
                    /\ sop' = <<"confirm_to_key", "Mismatch">>
    /\ UNCHANGED <<sowner, sobj, sbefore, osvars>>

\* main.rs over_encrypt_with_input after confirm_to_key: the Secret of the
\* key is dropped when the function returns
KOverEncryptWithInput ==
    /\ skey # NoObj
    /\ \E exit \in {"ClearingFile", "WritingHeader", "Crypt", "Ok"} :
         sop' = <<"over_encrypt_with_input", exit>>
    /\ sreleased' = Secret_drop(skey, "over_encrypt_with_input")
    /\ skey' = NoObj
    /\ UNCHANGED <<sowner, sobj, sbefore, osvars>>

SNext ==
    \/ SNew \/ SErase \/ SIntoInner \/ SDrop \/ SDropBare
    \/ KDecrypt \/ KOverEncrypt \/ KConfirmRound \/ KOverEncryptWithInput

SInit == SInitVars /\ CIdleVars /\ FIdleVars /\ OSIdle

SecretSpec == SInit /\ [][SNext]_vars

(***************************************************************************)
(* main.rs with_secured_mem and util/proc.rs secure_mem / expose_mem: the  *)
(* memory of the process is secured, the body (a file command) runs, the   *)
(* protections are reversed.  The body is any file command with any of its *)
(* results.                                                                *)
(***************************************************************************)
FileCmds == {"Read", "Change", "Create"}
BodyResults ==
    {"Ok", "OpeningFile", "InputPw", "ReadingHeader", "Crypt", "FileSerial",
     "MakingBackup", "ClearingFile", "WritingHeader", "SerialisingRecord",
     "ReadingStdin", "InputSerial", "Clipboard", "StartingProcess"}

\* proc::secure_mem: mlockall, then disable_dumps; the first error is returned
secure_mem(fault) ==
    IF fault = "mlockall" THEN [ok |-> FALSE, locked |-> FALSE, dumps |-> TRUE]
    ELSE IF fault = "setrlimit" THEN [ok |-> FALSE, locked |-> TRUE, dumps |-> TRUE]
    ELSE [ok |-> TRUE, locked |-> TRUE, dumps |-> FALSE]

\* proc::expose_mem: munlockall, then enable_dumps unless on Linux
expose_mem(fault, linux, locked, dumps) ==
    IF fault = "munlockall" THEN [ok |-> FALSE, locked |-> locked, dumps |-> dumps]
    ELSE IF linux THEN [ok |-> TRUE, locked |-> FALSE, dumps |-> dumps]
    ELSE IF fault = "setrlimit" THEN [ok |-> FALSE, locked |-> FALSE, dumps |-> dumps]
    ELSE [ok |-> TRUE, locked |-> FALSE, dumps |-> TRUE]

\* with_secured_mem after secure_mem: its error is returned before the body
with_secured_mem_secure(secured_ok) ==
    IF secured_ok THEN [pc |-> "body", out |-> "none"]
    ELSE [pc |-> "done", out |-> "SecuringMemory"]

\* a variant of with_secured_mem that returns the error of expose_mem
with_secured_mem_result_fatal(result, exposed_ok) ==
    IF exposed_ok THEN result ELSE "ExposingMemory"

\* with_secured_mem after the body: an error of expose_mem is warned about
\* and the result of the body is returned
with_secured_mem_result(result, exposed_ok) == result

MInitVars ==
    /\ mpc = "secure"
    /\ mlinux \in BOOLEAN
    /\ mcmd \in FileCmds
    /\ mlocked = FALSE
    /\ mdumps = TRUE
    /\ mresult = "none"
    /\ mout = "none"
    /\ mwarn = {}

MSecureMem ==
    /\ mpc = "secure"
    /\ \E fault \in {"none", "mlockall", "setrlimit"} :
         LET r == secure_mem(fault)
             next == with_secured_mem_secure(r.ok)
         IN  /\ mlocked' = r.locked
             /\ mdumps' = r.dumps
             /\ mpc' = next.pc
             /\ mout' = next.out
    /\ UNCHANGED <<mlinux, mcmd, mresult, mwarn, omvars>>

\* op(): the file command runs
MBody ==
    /\ mpc = "body"
    /\ \E result \in BodyResults : mresult' = result
    /\ mpc' = "expose"
    /\ UNCHANGED <<mlinux, mcmd, mlocked, mdumps, mout, mwarn, omvars>>

MExposeMem ==
    /\ mpc = "expose"
    /\ \E fault \in {"none", "munlockall", "setrlimit"} :
         LET r == expose_mem(fault, mlinux, mlocked, mdumps)
         IN  /\ mlocked' = r.locked
             /\ mdumps' = r.dumps
             /\ mwarn' = IF r.ok THEN mwarn ELSE mwarn \cup {"ExposingMemory"}
             /\ mout' = with_secured_mem_result(mresult, r.ok)
    /\ mpc' = "done"
    /\ UNCHANGED <<mlinux, mcmd, mresult, omvars>>

MNext == MSecureMem \/ MBody \/ MExposeMem

MInit == MInitVars /\ CIdleVars /\ FIdleVars /\ OMIdle

MemSpec == MInit /\ [][MNext]_vars

(***************************************************************************)
(* util/record: the tree of records.  A node is a Group or an Item behind  *)
(* an Rc; it has a name, a value (Item), a parent back-reference (0 when   *)
(* absent) and, for a Group, the members map from names to nodes.  Names   *)
(* and paths are strings of characters, given by their codes.              *)
(***************************************************************************)
\* the nodes of the heap are 1..MaxNodes
MaxNodes == 3
\* a path typed by the user has up to MaxPath characters
MaxPath == 3

NodeIds == 1..MaxNodes
\* RecordPath::DELIM, '.'
DELIM == 46
TNames == {<<97>>, <<98>>}
RootName == <<114>>
Values == {<<1>>, <<2>>}
\* input_escaped fails
InputError == <<>>
PathChars == {DELIM, 97, 98}
Paths == UNION {[1..n -> PathChars] : n \in 0..MaxPath}
MatchKinds == {"Fuzzy", "Exact"}

NoMembers == [n \in TNames |-> 0]
FreeNode == [kind |-> "free", name |-> <<>>, value |-> <<>>, parent |-> 0,
             members |-> NoMembers]
\* Metadata::for_root: the name, no parent
for_root(kind, name, value) ==
    [kind |-> kind, name |-> name, value |-> value, parent |-> 0,
     members |-> NoMembers]
\* Record::new_group, Group::new
new_group(name) == for_root("Group", name, <<>>)
\* Record::new_item, Item::new
new_item(name, value) == for_root("Item", name, value)

FreeIds(nodes) == {i \in NodeIds : nodes[i].kind = "free"}
\* new_node: the Rc of a new record
new_node(nodes) == CHOOSE i \in FreeIds(nodes) : \A j \in FreeIds(nodes) : i <= j

\* BTreeMap::get on the members of a group
members_get(members, name) == IF name \in DOMAIN members THEN members[name] ELSE 0

\* the nodes owned by the node r: itself and all below it
RECURSIVE Owned(_, _)
Owned(nodes, r) ==
    {r} \cup UNION {Owned(nodes, nodes[r].members[n]) :
                      n \in {k \in TNames : nodes[r].members[k] # 0}}

\* the last Rc of r goes away: r and all it owns are freed
drop_node(nodes, r) ==
    [i \in NodeIds |-> IF i \in Owned(nodes, r) THEN FreeNode ELSE nodes[i]]

\* a variant of Record::parent that takes a record without parent for its
\* own parent
Record_parent_or_self(nodes, rec) ==
    IF nodes[rec].parent = 0 THEN rec ELSE nodes[rec].parent

\* Record::parent, Metadata::parent: the group of the back-reference, 0 for
\* None
Record_parent(nodes, rec) == nodes[rec].parent

\* Group::get
Group_get(nodes, this, name) ==
    LET found == members_get(nodes[this].members, name)
    IN  IF found = 0 THEN [ok |-> FALSE, err |-> "NotFound", rec |-> 0]
        ELSE [ok |-> TRUE, err |-> "none", rec |-> found]

\* sublime_fuzzy::best_match, a stand-in: the pattern matches a name that
\* holds its characters in order; the score falls with the characters of
\* the name that are not matched
RECURSIVE is_subsequence(_, _)
is_subsequence(pat, name) ==
    IF pat = <<>> THEN TRUE
    ELSE IF name = <<>> THEN FALSE
    ELSE IF Head(pat) = Head(name) THEN is_subsequence(Tail(pat), Tail(name))
    ELSE is_subsequence(pat, Tail(name))
best_match(pat, name) ==
    IF is_subsequence(pat, name)
    THEN [hit |-> TRUE, score |-> 8 * Len(pat) - (Len(name) - Len(pat))]
    ELSE [hit |-> FALSE, score |-> 0]

\* Match::make
Match_make(pat, name, val) ==
    [hit |-> best_match(pat, name).hit, val |-> val, score |-> best_match(pat, name).score]

\* Group::get_fuzzy over the matches of the members in the order of the
\* iteration: the first loop stops at the first match
first_match(ms) ==
    IF \E i \in 1..Len(ms) : ms[i].hit
    THEN CHOOSE i \in 1..Len(ms) : ms[i].hit /\ \A j \in 1..(i - 1) : ~ms[j].hit
    ELSE 0

\* a variant of the second loop that forgets a tie when a later member
\* scores less
RECURSIVE remaining_matches_forgetful(_, _, _, _)
remaining_matches_forgetful(ms, i, best_match_, have_multiple_matches) ==
    IF i > Len(ms)
    THEN [best |-> best_match_, multiple |-> have_multiple_matches]
    ELSE IF ~ms[i].hit
    THEN remaining_matches_forgetful(ms, i + 1, best_match_, have_multiple_matches)
    ELSE IF ms[i].score > best_match_.score
    THEN remaining_matches_forgetful(ms, i + 1, ms[i], FALSE)
    ELSE IF ms[i].score = best_match_.score
    THEN remaining_matches_forgetful(ms, i + 1, best_match_, TRUE)
    ELSE remaining_matches_forgetful(ms, i + 1, best_match_, FALSE)

\* the second loop: a greater score replaces the best match and clears the
\* flag, an equal score sets it
RECURSIVE remaining_matches(_, _, _, _)
remaining_matches(ms, i, best_match_, have_multiple_matches) ==
    IF i > Len(ms)
    THEN [best |-> best_match_, multiple |-> have_multiple_matches]
    ELSE IF ~ms[i].hit
    THEN remaining_matches(ms, i + 1, best_match_, have_multiple_matches)
    ELSE IF ms[i].score > best_match_.score
    THEN remaining_matches(ms, i + 1, ms[i], FALSE)
    ELSE IF ms[i].score = best_match_.score
    THEN remaining_matches(ms, i + 1, best_match_, TRUE)
    ELSE remaining_matches(ms, i + 1, best_match_, have_multiple_matches)

get_fuzzy_over(ms) ==
    LET first == first_match(ms)
    IN  IF first = 0 THEN [ok |-> FALSE, err |-> "NotFound", rec |-> 0]
        ELSE LET r == remaining_matches(ms, first + 1, ms[first], FALSE)
             IN  IF r.multiple
                 THEN [ok |-> FALSE, err |-> "MultipleMatches", rec |-> 0]
                 ELSE [ok |-> TRUE, err |-> "none", rec |-> r.best.val]

\* the names in the order of the members map (BTreeMap: ascending)
NameOrder == << <<97>>, <<98>> >>
\* Group::get_fuzzy
Group_get_fuzzy(nodes, this, name_pat) ==
    LET present == SelectSeq(NameOrder, LAMBDA n : nodes[this].members[n] # 0)
    IN  get_fuzzy_over([i \in 1..Len(present) |->
                          Match_make(name_pat, present[i], nodes[this].members[present[i]])])

\* a variant of Group::insert that sets the back-reference before it looks
\* for the name
Group_insert_eager(nodes, this, rec) ==
    LET name == nodes[rec].name
    IN  IF members_get(nodes[this].members, name) # 0
        THEN [ok |-> FALSE, err |-> "AlreadyExists",
              nodes |-> [nodes EXCEPT ![rec].parent = this]]
        ELSE [ok |-> TRUE, err |-> "none",
              nodes |-> [nodes EXCEPT ![rec].parent = this,
                                      ![this].members[name] = rec]]

\* Group::insert: AlreadyExists before rec is modified; else the
\* back-reference of rec is set and rec is put in the members under its name
Group_insert(nodes, this, rec) ==
    LET name == nodes[rec].name
    IN  IF members_get(nodes[this].members, name) # 0
        THEN [ok |-> FALSE, err |-> "AlreadyExists", nodes |-> nodes]
        ELSE [ok |-> TRUE, err |-> "none",
              nodes |-> [nodes EXCEPT ![rec].parent = this,
                                      ![this].members[name] = rec]]

\* a variant of Group::remove that leaves the back-reference of the child
Group_remove_keeps_parent(nodes, this, name) ==
    LET removed == members_get(nodes[this].members, name)
    IN  IF removed = 0
        THEN [ok |-> FALSE, err |-> "NotFound", removed |-> 0, nodes |-> nodes]
        ELSE [ok |-> TRUE, err |-> "none", removed |-> removed,
              nodes |-> [nodes EXCEPT ![this].members[name] = 0]]

\* Group::remove: NotFound, or the child is taken out of the members and
\* its back-reference is cleared
Group_remove(nodes, this, name) ==
    LET removed == members_get(nodes[this].members, name)
    IN  IF removed = 0
        THEN [ok |-> FALSE, err |-> "NotFound", removed |-> 0, nodes |-> nodes]
        ELSE [ok |-> TRUE, err |-> "none", removed |-> removed,
              nodes |-> [nodes EXCEPT ![this].members[name] = 0,
                                      ![removed].parent = 0]]

(***************************************************************************)
(* util/record/ir.rs Ir and Record::from: a tree is built from its         *)
(* intermediate representation; the members of a group are collected into  *)
(* the map, where the last record of a name replaces an earlier one.       *)
(***************************************************************************)
Ir_item(name, value) == [kind |-> "Item", name |-> name, value |-> value, members |-> <<>>]
Ir_group(name, members) == [kind |-> "Group", name |-> name, value |-> <<>>, members |-> members]

IrLeaves == {Ir_item(n, <<1>>) : n \in TNames}
IrInner == {Ir_group(n, ms) : n \in TNames, ms \in {<<>>} \cup {<<l>> : l \in IrLeaves}}
IrMembers == IrLeaves \cup IrInner
RECURSIVE Ir_size(_)
Ir_size(ir) == 1 + (IF Len(ir.members) = 0 THEN 0
                    ELSE IF Len(ir.members) = 1 THEN Ir_size(ir.members[1])
                    ELSE Ir_size(ir.members[1]) + Ir_size(ir.members[2]))
\* serialized data whose root is a group
RootIrs ==
    {ir \in {Ir_group(RootName, ms) :
               ms \in {<<>>} \cup {<<a>> : a \in IrMembers}
                      \cup {<<a, b>> : a \in IrMembers, b \in IrMembers}} :
       Ir_size(ir) <= MaxNodes}

RECURSIVE Record_from(_, _)
RECURSIVE collect_members(_, _, _, _)
\* Record::from; the result is the heap and the node of the record
Record_from(ir, nodes) ==
    LET id == new_node(nodes)
    IN  IF ir.kind = "Item"
        THEN [nodes |-> [nodes EXCEPT ![id] = new_item(ir.name, ir.value)], id |-> id]
        ELSE [nodes |-> collect_members(ir.members, 1,
                                        [nodes EXCEPT ![id] = new_group(ir.name)], id),
              id |-> id]
\* the members of the group: Record::with_parent of each (Record::from, then
\* set_parent), collected into the map under its name
collect_members(irs, i, nodes, group) ==
    IF i > Len(irs) THEN nodes
    ELSE LET made == Record_from(irs[i], nodes)
             name == irs[i].name
             old == made.nodes[group].members[name]
             linked == [made.nodes EXCEPT ![made.id].parent = group,
                                          ![group].members[name] = made.id]
         IN  collect_members(irs, i + 1,
                             IF old = 0 THEN linked ELSE drop_node(linked, old),
                             group)

(***************************************************************************)
(* find.rs RecordPath.                                                     *)
(***************************************************************************)
\* a variant of the split that keeps the empty elements
RECURSIVE split_keep_empty(_, _)
split_keep_empty(s, cur) ==
    IF s = <<>> THEN <<cur>>
    ELSE IF Head(s) = DELIM THEN <<cur>> \o split_keep_empty(Tail(s), <<>>)
    ELSE split_keep_empty(Tail(s), Append(cur, Head(s)))

\* RecordPath::iter: split at DELIM, empty elements left out
RECURSIVE split(_, _)
split(s, cur) ==
    IF s = <<>> THEN (IF cur = <<>> THEN <<>> ELSE <<cur>>)
    ELSE IF Head(s) = DELIM
    THEN (IF cur = <<>> THEN <<>> ELSE <<cur>>) \o split(Tail(s), <<>>)
    ELSE split(Tail(s), Append(cur, Head(s)))
RecordPath_iter(path) == split(path, <<>>)
\* the element lists of the paths
PathElements == {RecordPath_iter(path) : path \in Paths}

NoFound == [ok |-> FALSE, err |-> "none", e |-> "none", rec |-> 0, pat |-> <<>>,
            in_group |-> <<>>, name |-> <<>>, matched |-> <<>>]

\* RecordPath::find_rec_in: the loop over the elements of the path
RECURSIVE find_loop(_, _, _, _, _)
find_loop(nodes, rec, pats, i, mk) ==
    IF i > Len(pats)
    THEN [NoFound EXCEPT !.ok = TRUE, !.rec = rec,
                         !.matched = IF i > 1 /\ mk # "Exact" THEN pats[i - 1] ELSE <<>>]
    ELSE IF nodes[rec].kind = "Group"
    THEN LET found == IF mk = "Fuzzy" THEN Group_get_fuzzy(nodes, rec, pats[i])
                      ELSE Group_get(nodes, rec, pats[i])
         IN  IF found.ok THEN find_loop(nodes, found.rec, pats, i + 1, mk)
             ELSE [NoFound EXCEPT !.err = "NotFound", !.e = found.err,
                                  !.pat = pats[i], !.in_group = nodes[rec].name]
    ELSE [NoFound EXCEPT !.err = "NotAGroup", !.name = nodes[rec].name,
                         !.pat = IF mk = "Fuzzy" THEN pats[i] ELSE <<>>]
find_rec_in(nodes, rec, path, mk) == find_loop(nodes, rec, RecordPath_iter(path), 1, mk)
\* find_rec_in for a path of the elements pats
find_elements_in(nodes, rec, pats, mk) == find_loop(nodes, rec, pats, 1, mk)

\* RecordPath::find_group_in
find_group_in(nodes, rec, pats, mk) ==
    LET f == find_elements_in(nodes, rec, pats, mk)
    IN  IF ~f.ok \/ nodes[f.rec].kind = "Group" THEN f
        ELSE [NoFound EXCEPT !.err = "NotAGroup", !.name = nodes[f.rec].name,
                             !.pat = f.matched]
\* RecordPath::find_item_in
find_item_in(nodes, rec, pats, mk) ==
    LET f == find_elements_in(nodes, rec, pats, mk)
    IN  IF ~f.ok \/ nodes[f.rec].kind = "Item" THEN f
        ELSE [NoFound EXCEPT !.err = "NotAnItem", !.name = nodes[f.rec].name,
                             !.pat = f.matched]

(***************************************************************************)
(* The operations on the tree: the calls of Group::insert and              *)
(* Group::remove, and the edit commands of tui/mod.rs.                     *)
(***************************************************************************)
NoLast == [op |-> "none", res |-> "none", path |-> <<>>, mk |-> "none",
           found |-> NoFound, group |-> 0, child |-> 0,
           child_before |-> FreeNode, child_after |-> FreeNode,
           shown |-> <<>>]

TInitVars ==
    /\ \E ir \in RootIrs :
         LET made == Record_from(ir, [i \in NodeIds |-> FreeNode])
         IN  /\ tnodes = made.nodes
             /\ troot = made.id
             /\ tprev = made.nodes
    /\ tlast = [NoLast EXCEPT !.op = "from"]

Live(nodes) == {i \in NodeIds : nodes[i].kind # "free"}
LiveGroups(nodes) == {i \in NodeIds : nodes[i].kind = "Group"}
NewRecords ==
    {new_group(n) : n \in TNames} \cup {new_item(n, v) : n \in TNames, v \in Values}

\* Group::insert of a new record into a group; the caller drops the record
\* when it is rejected
GInsert ==
    /\ FreeIds(tnodes) # {}
    /\ \E this \in LiveGroups(tnodes), new \in NewRecords :
         LET rec == new_node(tnodes)
             made == [tnodes EXCEPT ![rec] = new]
             r == Group_insert(made, this, rec)
         IN  /\ tnodes' = IF r.ok THEN r.nodes ELSE drop_node(r.nodes, rec)
             /\ tlast' = [NoLast EXCEPT !.op = "insert", !.res = r.err,
                                        !.group = this, !.child = rec,
                                        !.child_before = new,
                                        !.child_after = r.nodes[rec]]
    /\ tprev' = tnodes
    /\ UNCHANGED <<troot, otvars>>

\* Group::remove of a name from a group; the caller drops the record it gets
GRemove ==
    /\ \E this \in LiveGroups(tnodes), name \in TNames :
         LET r == Group_remove(tnodes, this, name)
         IN  /\ tnodes' = IF r.ok THEN drop_node(r.nodes, r.removed) ELSE r.nodes
             /\ tlast' = [NoLast EXCEPT !.op = "remove", !.res = r.err,
                                        !.group = this, !.child = r.removed,
                                        !.child_before =
                                            IF r.ok THEN tnodes[r.removed] ELSE FreeNode,
                                        !.child_after =
                                            IF r.ok THEN r.nodes[r.removed] ELSE FreeNode]
    /\ tprev' = tnodes
    /\ UNCHANGED <<troot, otvars>>

\* a path is resolved (as by the read commands)
TFind ==
    /\ \E path \in Paths, mk \in MatchKinds :
         tlast' = [NoLast EXCEPT !.op = "find", !.path = path, !.mk = mk,
                                 !.found = find_rec_in(tnodes, troot, path, mk),
                                 !.res = find_rec_in(tnodes, troot, path, mk).err]
    /\ tprev' = tnodes
    /\ UNCHANGED <<tnodes, troot, otvars>>

\* EditCmd::Remove, for one of its paths: the record is found, the root is
\* refused, the record is removed from its parent, erased and dropped
TRemove ==
    /\ \E pats \in PathElements, mk \in MatchKinds :
         LET f == find_elements_in(tnodes, troot, pats, mk)
             parent == IF f.ok THEN Record_parent(tnodes, f.rec) ELSE 0
         IN  IF ~f.ok
             THEN /\ tnodes' = tnodes
                  /\ tlast' = [NoLast EXCEPT !.op = "Remove", !.res = f.err]
             ELSE IF parent = 0
             THEN /\ tnodes' = tnodes
                  /\ tlast' = [NoLast EXCEPT !.op = "Remove", !.child = f.rec,
                                             !.res = "cannot remove root group"]
             ELSE LET r == Group_remove(tnodes, parent, tnodes[f.rec].name)
                  IN  /\ tnodes' = drop_node(r.nodes, f.rec)
                      /\ tlast' = [NoLast EXCEPT !.op = "Remove", !.res = r.err,
                                                 !.group = parent,
                                                 !.child = f.rec,
                                                 !.child_before = tnodes[f.rec],
                                                 !.child_after = r.nodes[f.rec]]
    /\ tprev' = tnodes
    /\ UNCHANGED <<troot, otvars>>

\* tui insert: Group::insert; a rejected record is erased (and dropped)
tui_insert(nodes, rec, group) ==
    LET r == Group_insert(nodes, group, rec)
    IN  IF r.ok THEN [ok |-> TRUE, err |-> "none", nodes |-> r.nodes, left |-> r.nodes[rec]]
        ELSE [ok |-> FALSE, err |-> "AddingRecord", nodes |-> drop_node(r.nodes, rec),
              left |-> r.nodes[rec]]

\* EditCmd::CreateItem
TCreateItem ==
    /\ FreeIds(tnodes) # {}
    /\ \E dest \in PathElements, mk \in MatchKinds, name \in TNames,
          value \in Values \cup {InputError} :
         LET f == find_group_in(tnodes, troot, dest, mk)
             typed == (value # InputError)
             rec == new_node(tnodes)
             made == [tnodes EXCEPT ![rec] = new_item(name, value)]
         IN  IF ~f.ok
             THEN /\ tnodes' = tnodes
                  /\ tlast' = [NoLast EXCEPT !.op = "CreateItem", !.res = f.err]
             ELSE IF Group_get(tnodes, f.rec, name).ok
             THEN /\ tnodes' = tnodes
                  /\ tlast' = [NoLast EXCEPT !.op = "CreateItem", !.res = "AddingRecord",
                                             !.group = f.rec]
             ELSE IF ~typed
             THEN /\ tnodes' = tnodes
                  /\ tlast' = [NoLast EXCEPT !.op = "CreateItem", !.res = "ReadingInput",
                                             !.group = f.rec]
             ELSE LET r == tui_insert(made, rec, f.rec)
                  IN  /\ tnodes' = r.nodes
                      /\ tlast' = [NoLast EXCEPT !.op = "CreateItem", !.res = r.err,
                                                 !.group = f.rec,
                                                 !.child = rec,
                                                 !.child_before = made[rec],
                                                 !.child_after = r.left]
    /\ tprev' = tnodes
    /\ UNCHANGED <<troot, otvars>>

\* EditCmd::CreateGroup
TCreateGroup ==
    /\ FreeIds(tnodes) # {}
    /\ \E dest \in PathElements, mk \in MatchKinds, name \in TNames :
         LET f == find_group_in(tnodes, troot, dest, mk)
             rec == new_node(tnodes)
             made == [tnodes EXCEPT ![rec] = new_group(name)]
         IN  IF ~f.ok
             THEN /\ tnodes' = tnodes
                  /\ tlast' = [NoLast EXCEPT !.op = "CreateGroup", !.res = f.err]
             ELSE LET r == tui_insert(made, rec, f.rec)
                  IN  /\ tnodes' = r.nodes
                      /\ tlast' = [NoLast EXCEPT !.op = "CreateGroup", !.res = r.err,
                                                 !.group = f.rec,
                                                 !.child = rec,
                                                 !.child_before = made[rec],
                                                 !.child_after = r.left]
    /\ tprev' = tnodes
    /\ UNCHANGED <<troot, otvars>>

\* EditCmd::ChangeValue
TChangeValue ==
    /\ \E pats \in PathElements, mk \in MatchKinds, value \in Values \cup {InputError} :
         LET f == find_item_in(tnodes, troot, pats, mk)
             typed == (value # InputError)
         IN  IF ~f.ok
             THEN /\ tnodes' = tnodes
                  /\ tlast' = [NoLast EXCEPT !.op = "ChangeValue", !.res = f.err]
             ELSE IF ~typed
             THEN /\ tnodes' = tnodes
                  /\ tlast' = [NoLast EXCEPT !.op = "ChangeValue", !.res = "ReadingInput"]
             ELSE /\ tnodes' = [tnodes EXCEPT ![f.rec].value = value]
                  /\ tlast' = [NoLast EXCEPT !.op = "ChangeValue", !.child = f.rec,
                                             !.child_before = tnodes[f.rec],
                                             !.child_after = tnodes'[f.rec]]
    /\ tprev' = tnodes
    /\ UNCHANGED <<troot, otvars>>

TNext ==
    \/ GInsert \/ GRemove
    \/ TRemove \/ TCreateItem \/ TCreateGroup \/ TChangeValue

TInit == TInitVars /\ CIdleVars /\ FIdleVars /\ OTIdle

TreeSpec == TInit /\ [][TNext]_vars

\* the checks of the lookups: a path is resolved in a tree built from
\* serialized data
FNext == TFind

FindSpec == TInit /\ [][FNext]_vars

(***************************************************************************)
(* Group::get_fuzzy on its own: the members of a group are visited in some *)
(* order, each with the outcome of Match::make for the pattern (no match,  *)
(* or a score).                                                            *)
(***************************************************************************)
\* a group of the fuzzy lookups has up to MaxMatches members
MaxMatches == 3
Scores == {-1, 1, 2}
MatchOutcomes == {[hit |-> FALSE, score |-> 0]} \cup {[hit |-> TRUE, score |-> x] : x \in Scores}
\* the orders in which n members can be visited
VisitOrders(n) == {o \in [1..n -> 1..n] : \A i, j \in 1..n : i # j => o[i] # o[j]}
NoLookup == [ok |-> FALSE, err |-> "none", rec |-> 0]

QInitVars ==
    /\ \E n \in 0..MaxMatches :
         \E o \in VisitOrders(n), out \in [1..n -> MatchOutcomes] :
           qms = [i \in 1..n |-> [hit |-> out[i].hit, val |-> o[i], score |-> out[i].score]]
    /\ qres = NoLookup

QGetFuzzy ==
    /\ qres = NoLookup
    /\ qres' = get_fuzzy_over(qms)
    /\ UNCHANGED <<qms, oqvars>>

QNext == QGetFuzzy

QInit == QInitVars /\ CIdleVars /\ FIdleVars /\ OQIdle

FuzzySpec == QInit /\ [][QNext]_vars

(***************************************************************************)
(* util/file.rs: the name of the backup of a file.  backup_path_from puts  *)
(* the path in absolute form, replaces every separator by the substitute   *)
(* character and every substitute character by two of them, appends the    *)
(* extension and pushes the name on the backup directory.  Paths are       *)
(* sequences of bytes; the paths drawn have no "." or ".." component.      *)
(***************************************************************************)
MaxFileLen == 5
MaxCalls == 2

MAIN_SEPARATOR == 47
SEP_SUBSTITUTE == 37
SEP_SUBSTITUTE_STR == <<37>>
ESCAPED_SUBSTITUTE == <<37, 37>>
BACKUP_EXTENSION == <<46, 98, 97, 107>>
BACKUP_DIR == <<98, 97, 99, 107, 117, 112>>

FileChars == {MAIN_SEPARATOR, SEP_SUBSTITUTE, 97}
FilePaths == UNION {[1..n -> FileChars] : n \in 1..MaxFileLen}
Cwds == {<<MAIN_SEPARATOR>>, <<MAIN_SEPARATOR, 97>>}
DataDirs == {<<MAIN_SEPARATOR, 100>>}

\* Path::components: the parts between separators, empty parts left out
RECURSIVE components_from(_, _, _)
components_from(path, i, cur) ==
    IF i > Len(path)
    THEN IF cur = <<>> THEN <<>> ELSE <<cur>>
    ELSE IF path[i] = MAIN_SEPARATOR
    THEN (IF cur = <<>> THEN <<>> ELSE <<cur>>) \o components_from(path, i + 1, <<>>)
    ELSE components_from(path, i + 1, Append(cur, path[i]))
components(path) == components_from(path, 1, <<>>)
is_absolute(path) == path # <<>> /\ path[1] = MAIN_SEPARATOR

\* PathBuf::push: an absolute path replaces the buffer, another is joined
\* to it with one separator
PathBuf_push(buf, path) ==
    IF is_absolute(path) THEN path
    ELSE IF buf = <<>> \/ buf[Len(buf)] = MAIN_SEPARATOR THEN buf \o path
    ELSE buf \o <<MAIN_SEPARATOR>> \o path

RECURSIVE push_all(_, _, _)
push_all(buf, comps, i) ==
    IF i > Len(comps) THEN buf
    ELSE push_all(PathBuf_push(buf, comps[i]), comps, i + 1)

\* Absolutize::absolutize: a relative path is taken from the working
\* directory, separators are not repeated and none is left at the end
absolutize(path, cwd) ==
    IF is_absolute(path)
    THEN push_all(<<MAIN_SEPARATOR>>, components(path), 1)
    ELSE push_all(<<MAIN_SEPARATOR>>, components(cwd) \o components(path), 1)

RECURSIVE substitute(_, _)
substitute(abs, i) ==
    IF i > Len(abs) THEN <<>>
    ELSE (IF abs[i] = MAIN_SEPARATOR THEN SEP_SUBSTITUTE_STR
          ELSE IF abs[i] = SEP_SUBSTITUTE THEN ESCAPED_SUBSTITUTE
          ELSE <<abs[i]>>) \o substitute(abs, i + 1)

file_name_from(path, cwd) == substitute(absolutize(path, cwd), 1)
backup_name_from(file_path, cwd) == file_name_from(file_path, cwd) \o BACKUP_EXTENSION
backup_path_from(file_path, backup_dir, cwd) ==
    PathBuf_push(backup_dir, backup_name_from(file_path, cwd))

\* env.rs: the backup directory is "backup" in the data directory
backup_dir_of(data_dir) == PathBuf_push(data_dir, BACKUP_DIR)

BInitVars ==
    /\ bcwd \in Cwds
    /\ bcalls = <<>>

\* the backup path of one more file is computed
BBackupPathFrom ==
    /\ bcwd # <<>>
    /\ Len(bcalls) < MaxCalls
    /\ \E file_path \in FilePaths, data_dir \in DataDirs :
         bcalls' = Append(bcalls,
                      [abs |-> absolutize(file_path, bcwd),
                       backup |-> backup_path_from(file_path, backup_dir_of(data_dir), bcwd)])
    /\ UNCHANGED <<bcwd, obvars>>

BNext == BBackupPathFrom
BInit == BInitVars /\ CIdleVars /\ FIdleVars /\ OBIdle
BackupSpec == BInit /\ [][BNext]_vars

(***************************************************************************)
(* CryptCtx::decrypt, one iteration of its loop at a time.  The source is  *)
(* any io::Read: a read may deliver fewer bytes than the buffer holds      *)
(* although more are to come, and it may fail.                             *)
(***************************************************************************)
\* the sizes a read may be cut to: one byte, a tag and a byte, a block
\* less a byte, the whole buffer
ReadCaps == {1, TAG_LEN + 1, ENCRYPTED_BLOCK_LEN - 1, ENCRYPTED_BLOCK_LEN}

\* the streams decrypted: a plaintext sealed under a header and a password,
\* intact or with a bit of one sealed block flipped
Sealed(plain, head, pw) == encrypt(plain, Key_from_password(pw, head), head, 0).out
FlippedIn(stream) ==
    {FlipAt(stream, SealedStart(k) + 1, 0) : k \in 0..(NumSealed(Len(stream)) - 1)}
DStreams(head, pw) ==
    UNION {{Sealed(plain, head, pw)} \cup FlippedIn(Sealed(plain, head, pw)) :
             plain \in Plaintexts}

NoDRet == [ok |-> FALSE, err |-> "none", at |-> 0, data |-> <<>>]

DInitVars ==
    /\ dpc = "loop"
    /\ dhead \in Headers
    /\ \E pw \in Passwords : dstream \in DStreams(dhead, pw)
    /\ \E pw \in Passwords : dkey = Key_from_password(pw, dhead)
    /\ dsrc = dstream
    /\ dposition = 0
    /\ dresult = <<>>
    /\ dshort = FALSE
    /\ dret = NoDRet
    /\ dreleased = {}

\* a variant whose `result` is a plain Vec
decrypt_unwind_plain(result) == plain_drop(Vec_new(result), "decrypt")

\* an error leaves decrypt through `?`: `result`, a Secret, goes out of
\* scope
decrypt_unwind(result) == Secret_drop(Vec_new(result), "decrypt")

\* the end of an iteration: `decrypted_block`, a Secret, goes out of scope
decrypted_block_drop(msg) == Secret_drop(Vec_new(msg), "decrypt")

\* src.read fails: ReadingBlock
DReadError ==
    /\ dpc = "loop"
    /\ dreleased' = dreleased \cup decrypt_unwind(dresult)
    /\ dret' = [ok |-> FALSE, err |-> "ReadingBlock", at |-> dposition, data |-> <<>>]
    /\ dpc' = "done"
    /\ UNCHANGED <<dstream, dsrc, dhead, dkey, dposition, dresult, dshort, odvars>>

\* one iteration of the loop with a read that succeeds and delivers up to
\* `cap` bytes; when the call is over, dresult is what `result` held last
DIterate ==
    /\ dpc = "loop"
    /\ \E cap \in ReadCaps :
         LET read_len == read_len_of(dsrc, cap)
             at_last_block == decrypt_at_last_block(read_len)
             opened == decrypt_next(dkey, dhead, dposition, Take(dsrc, read_len))
         IN  /\ dshort' = (dshort \/ read_len < read_len_of(dsrc, ENCRYPTED_BLOCK_LEN))
             /\ dsrc' = Drop(dsrc, read_len)
             /\ IF read_len = 0
                THEN /\ dret' = [ok |-> TRUE, err |-> "none", at |-> 0, data |-> dresult]
                     /\ dpc' = "done"
                     /\ UNCHANGED <<dposition, dresult, dreleased>>
                ELSE IF ~opened.ok
                THEN /\ dreleased' = dreleased \cup decrypt_unwind(dresult)
                     /\ dret' = [ok |-> FALSE, err |-> "DecryptingBlock",
                                 at |-> dposition, data |-> <<>>]
                     /\ dpc' = "done"
                     /\ UNCHANGED <<dposition, dresult>>
                ELSE /\ dresult' = dresult \o opened.msg
                     /\ dreleased' = dreleased \cup decrypted_block_drop(opened.msg)
                     /\ dposition' = dposition + 1
                     /\ IF at_last_block
                        THEN /\ dret' = [ok |-> TRUE, err |-> "none", at |-> 0,
                                         data |-> dresult']
                             /\ dpc' = "done"
                        ELSE UNCHANGED <<dret, dpc>>
    /\ UNCHANGED <<dstream, dhead, dkey, odvars>>

DNext == DReadError \/ DIterate

DInit == DInitVars /\ CIdleVars /\ FIdleVars /\ ODIdle

DecryptSpec == DInit /\ [][DNext]_vars

(***************************************************************************)
(* over_encrypt on its own: a file that holds a pass file is rewritten     *)
(* with a plaintext of up to MaxBlocks + 1 blocks by one process.          *)
(***************************************************************************)
\* the files rewritten: pass files of every length of plaintext
PrevFiles == {PassFile(Plaintext(n, 0), <<97>>, Header_generate(0)) : n \in PlainLens}

RInitVars ==
    /\ rpc = "start"
    /\ rprev \in PrevFiles
    /\ rfile = rprev
    \* decrypt has read the file to its end
    /\ rpos = Len(rprev)
    /\ rdata \in Plaintexts
    /\ rpw \in Passwords
    /\ rhead = Header_generate(0)
    /\ rsrc = <<>>
    /\ rposition = 0
    /\ rret = "none"

\* Header::generate and Key::from_password
RStart ==
    /\ rpc = "start"
    /\ \E id \in FreshHeaderIds, keyFault \in BOOLEAN :
         IF keyFault
         THEN /\ rret' = "GeneratingKey"
              /\ rpc' = "done"
              /\ UNCHANGED rhead
         ELSE /\ rhead' = Header_generate(id)
              /\ rpc' = "clear"
              /\ UNCHANGED rret
    /\ UNCHANGED <<rprev, rfile, rpos, rdata, rpw, rsrc, rposition, orvars>>

\* file::clear
RClear ==
    /\ rpc = "clear"
    /\ \E outcome \in {"ok", "set_len_fails", "rewind_fails"} :
         /\ rfile' = file_clear(rfile, outcome)
         /\ rpos' = IF outcome = "ok" THEN 0 ELSE rpos
         /\ rpc' = IF outcome = "ok" THEN "header" ELSE "done"
         /\ rret' = IF outcome = "ok" THEN rret ELSE "ClearingFile"
    /\ UNCHANGED <<rprev, rdata, rpw, rhead, rsrc, rposition, orvars>>

\* a write_all of `bytes` at the position of the file: all of it, or on a
\* fault a part of it
RWriteAll(bytes, fault) ==
    LET wrote == IF fault THEN PartialWrite(bytes) ELSE bytes
    IN  /\ rfile' = WriteAt(rfile, rpos, wrote)
        /\ rpos' = rpos + Len(wrote)

\* Header::write_to, then CryptCtx::new and the entry of encrypt
RHeader ==
    /\ rpc = "header"
    /\ \E failing \in {"none", "salt", "nonce"} :
         /\ RWriteAll(IF failing = "salt" THEN rhead.salt ELSE Header_bytes(rhead),
                      failing # "none")
         /\ rpc' = IF failing = "none" THEN "block" ELSE "done"
         /\ rret' = IF failing = "none" THEN rret ELSE "WritingHeader"
    /\ rsrc' = rdata
    /\ UNCHANGED <<rprev, rdata, rpw, rhead, rposition, orvars>>

\* one iteration of the loop of CryptCtx::encrypt, or its end
RBlock ==
    /\ rpc = "block"
    /\ IF rsrc = <<>>
       THEN /\ rret' = "Ok"
            /\ rpc' = "done"
            /\ UNCHANGED <<rfile, rpos, rsrc, rposition>>
       ELSE \E fault \in BOOLEAN :
              LET step == encrypt_step(rsrc, rposition,
                                       Key_from_password(rpw, rhead), rhead)
              IN  /\ RWriteAll(step.crypted_block, fault)
                  /\ IF fault
                     THEN /\ rret' = "WritingBlock"
                          /\ rpc' = "done"
                          /\ UNCHANGED <<rsrc, rposition>>
                     ELSE /\ rsrc' = step.rest
                          /\ rposition' = rposition + 1
                          /\ rret' = IF step.at_last_block THEN "Ok" ELSE rret
                          /\ rpc' = IF step.at_last_block THEN "done" ELSE "block"
    /\ UNCHANGED <<rprev, rdata, rpw, rhead, orvars>>

RNext == RStart \/ RClear \/ RHeader \/ RBlock

RInit == RInitVars /\ CIdleVars /\ FIdleVars /\ ORIdle

RewriteSpec == RInit /\ [][RNext]_vars

(***************************************************************************)
(* util/record: the listing of one level (DisplayList) and the rendering   *)
(* of the whole tree (DisplayTree), as ReadCmd::List and ReadCmd::Tree     *)
(* print them.  The text is a sequence of pieces: a name in its style, a   *)
(* line break, or a drawing of the branch.                                 *)
(***************************************************************************)
Piece(k, s) == [k |-> k, s |-> s]
Newline == Piece("newline", <<>>)

RECURSIVE Concat(_)
Concat(seqs) == IF seqs = <<>> THEN <<>> ELSE Head(seqs) \o Concat(Tail(seqs))

\* the names of the members of a group, as members.iter() visits them
MemberNames(nodes, this) == SelectSeq(NameOrder, LAMBDA n : nodes[this].members[n] # 0)

\* a variant that writes the value of an item after its name
fmt_name_with_value(nodes, rec, name) ==
    IF nodes[rec].kind = "Group" THEN <<Piece("heading", name)>>
    ELSE <<Piece("plain", name), Piece("plain", nodes[rec].value)>>

\* Record::fmt_name: the name as a heading for a group, plain for an item
fmt_name(nodes, rec, name) ==
    IF nodes[rec].kind = "Group" THEN <<Piece("heading", name)>>
    ELSE <<Piece("plain", name)>>

\* impl Display for DisplayList
DisplayList_fmt(nodes, rec) ==
    IF nodes[rec].kind = "Group"
    THEN LET names == MemberNames(nodes, rec)
         IN  Concat([i \in 1..Len(names) |->
                       (IF i > 1 THEN <<Newline>> ELSE <<>>)
                       \o fmt_name(nodes, nodes[rec].members[names[i]], names[i])])
    ELSE <<Piece("plain", nodes[rec].name)>>

\* Group::fmt_as_branch: a line for each member, and below a group its own
\* branch with the buffer grown by a bar or by a space
RECURSIVE fmt_as_branch(_, _, _)
fmt_as_branch(nodes, this, buffer) ==
    LET names == MemberNames(nodes, this)
        line(i) ==
            LET rec == nodes[this].members[names[i]]
                more == i < Len(names)
            IN  <<Newline>> \o buffer
                \o <<Piece(IF more THEN "FORK" ELSE "FORK_END", <<>>)>>
                \o fmt_name(nodes, rec, names[i])
                \o (IF nodes[rec].kind = "Group"
                    THEN fmt_as_branch(nodes, rec,
                             Append(buffer, Piece(IF more THEN "BAR" ELSE "SPACE", <<>>)))
                    ELSE <<>>)
    IN  Concat([i \in 1..Len(names) |-> line(i)])

\* impl Display for DisplayTree
DisplayTree_fmt(nodes, rec) ==
    IF nodes[rec].kind = "Group"
    THEN <<Piece("title", nodes[rec].name)>> \o fmt_as_branch(nodes, rec, <<>>)
    ELSE <<Piece("plain", nodes[rec].name)>>

ShowOps == {"List", "ListAt", "Tree", "TreeAt"}

\* ReadCmd::List and ReadCmd::Tree: without a path the data is displayed
\* ("List", "Tree"), with a path the record it names, or the error of the
\* lookup is printed ("ListAt", "TreeAt")
ReadCmd_show(nodes, data, op, path, mk) ==
    LET f == find_rec_in(nodes, data, path, mk)
        rec == IF op \in {"List", "Tree"} THEN data ELSE f.rec
    IN  IF op \in {"ListAt", "TreeAt"} /\ ~f.ok
        THEN <<Piece(f.err, f.name \o f.pat \o f.in_group)>>
        ELSE IF op \in {"List", "ListAt"} THEN DisplayList_fmt(nodes, rec)
        ELSE DisplayTree_fmt(nodes, rec)

\* ReadCmd::List
TList ==
    /\ \E op \in {"List", "ListAt"}, path \in Paths, mk \in MatchKinds :
         /\ op = "List" => path = <<>>
         /\ tlast' = [NoLast EXCEPT !.op = op, !.path = path, !.mk = mk,
                                    !.shown = ReadCmd_show(tnodes, troot, op, path, mk)]
    /\ tprev' = tnodes
    /\ UNCHANGED <<tnodes, troot, otvars>>

\* ReadCmd::Tree
TTree ==
    /\ \E op \in {"Tree", "TreeAt"}, path \in Paths, mk \in MatchKinds :
         /\ op = "Tree" => path = <<>>
         /\ tlast' = [NoLast EXCEPT !.op = op, !.path = path, !.mk = mk,
                                    !.shown = ReadCmd_show(tnodes, troot, op, path, mk)]
    /\ tprev' = tnodes
    /\ UNCHANGED <<tnodes, troot, otvars>>

\* an edit session with its listings
ShowNext == TNext \/ TList \/ TTree

ShowSpec == TInit /\ [][ShowNext]_vars

(***************************************************************************)
(* The statements checked.                                                 *)
(***************************************************************************)
Main == proc["main"]
\* the errors a Change command can return once the primary file is open
ReturnedAfterOpen ==
    /\ cmd \in ChangeCmds
    /\ Main.pc = "done"
    /\ Main.out \notin {"none", "Ok", "RecoveringBackup", "SecuringMemory", "OpeningFile"}
\* the errors of the rewrite: file::clear, Header::write_to, CryptCtx::encrypt
RewriteErrors == {"ClearingFile", "WritingHeader", "WritingBlock"}

\* C1 as stated: a Change command that returns an error after the primary was
\* opened leaves the primary with its original bytes or with the complete
\* new file.  Refuted: when the rename of recover fails, the command only
\* warns and the primary stays truncated or partly written.
C1_ErrorLeavesOriginalOrNew ==
    ReturnedAfterOpen =>
        \/ Main.ret = g.orig
        \/ (Main.target # <<>> /\ Main.ret = Main.target)

\* C1, amended: a Change command that returns an error before make_backup
\* succeeded has not touched the primary; one that returns an error after it
\* has attempted recover, and when the rename succeeded the primary holds its
\* original bytes (when the rename failed the primary may be partly written).
C1_ErrorLeavesOriginalUnlessRecoverFails ==
    ReturnedAfterOpen =>
        /\ ~g.backed => Main.ret = g.orig
        /\ g.backed => Main.cleanup \in {"recover_ok", "recover_failed"}
        /\ Main.cleanup = "recover_ok" => Main.ret = g.orig

C1_Witness ==
    /\ ReturnedAfterOpen
    /\ Main.out = "WritingBlock"
    /\ Main.cleanup = "recover_ok"
    /\ Main.ret = g.orig

\* C2 as stated: when creating the backup, rewriting the primary or deleting
\* the backup fails, the backup is renamed back over the primary and the
\* error of that step is returned.  Refuted: a failure of make_backup returns
\* MakingBackup without any rename, and a failure of remove_backup is only a
\* warning of a command that returns Ok.
C2_AnyFailedStepRecovers ==
    /\ cmd \in ChangeCmds
    /\ Main.pc = "done"
    /\ \/ Main.out \in RewriteErrors \cup {"MakingBackup"}
       \/ Main.cleanup = "remove_backup_failed"
    => Main.cleanup = "recover_ok" /\ Main.out # "Ok"

\* C2, amended: when the rewrite of the primary fails, recover is attempted
\* (a failure of its rename is only a warning) and the error of the rewrite
\* is returned, and after a rename that succeeded no backup is left; when
\* make_backup fails the command returns MakingBackup, renames nothing and
\* leaves the primary as it was; when remove_backup fails the command
\* returns Ok.
C2_RewriteFailureRecovers ==
    (cmd \in ChangeCmds /\ Main.pc = "done") =>
        /\ Main.out \in RewriteErrors =>
              /\ Main.cleanup \in {"recover_ok", "recover_failed"}
              /\ Main.cleanup = "recover_ok" => dir.backup = 0
        /\ Main.out = "MakingBackup" => Main.cleanup = "none" /\ Main.ret = g.orig
        /\ Main.cleanup = "remove_backup_failed" => Main.out = "Ok"

C2_Witness ==
    /\ cmd \in ChangeCmds
    /\ Main.pc = "done"
    /\ Main.out = "ClearingFile"
    /\ Main.cleanup = "recover_ok"
    /\ dir.backup = 0
    /\ Primary = g.orig

\* C3 as stated: after an interruption of a Change command between the
\* truncation of the primary and the deletion of the backup, the next start
\* finds a backup, and once the operator confirms recovery the primary holds
\* the content it had before the interrupted command and the backup is gone.
\* Refuted by the clipboard child that goes on with the session after an
\* error: it removes the backup while its parent still rewrites.
C3_InterruptedRewriteIsRecovered ==
    g.prevDirty =>
        /\ g.stale
        /\ (Main.pc = "secure" /\ g.recovery = "recovered") =>
              (Primary = g.prevOrig /\ dir.backup = 0)

\* C4: when a backup exists at startup, the body of the command runs only
\* after the backup was recovered or removed, and then no backup exists when
\* the body starts; when the operator declines both, the command returns
\* RecoveringBackup(RemovalRefusal) and both files are as they were.
C4_NoBodyWithStaleBackup ==
    g.stale =>
        /\ (Alive("main") /\ Main.pc # "start") => g.recovery \in {"recovered", "removed"}
        /\ Main.pc \in {"secure", "open"} => dir.backup = 0
        /\ (Main.pc = "done" /\ Main.out # "RecoveringBackup") =>
              g.recovery \in {"recovered", "removed"}
        /\ (Main.pc = "done" /\ g.recovery = "refused") =>
              /\ Main.out = "RecoveringBackup"
              /\ Primary = g.prim0
              /\ Backup = g.bak0

C4_Witness ==
    /\ g.stale
    /\ g.recovery = "removed"
    /\ Main.pc = "decrypt"
    /\ dir.backup = 0

\* the primary is partly rewritten by the process p: p has truncated it and
\* it holds neither the original bytes nor the complete file p writes
PartlyRewrittenBy(p) ==
    /\ Alive(p)
    /\ proc[p].dirty
    /\ ofd.ino = dir.main
    /\ Primary # g.orig
    /\ Primary # proc[p].target

\* C5 as stated: in a Change command the primary is truncated or written only
\* after make_backup succeeded, and whenever the primary is partly rewritten
\* the backup exists and holds the original content.  Refuted by the
\* clipboard child that goes on with the session after an error: it removes
\* the backup while its parent rewrites the primary.
C5_BackupCoversRewrite ==
    cmd \in ChangeCmds =>
        \A p \in Procs :
            /\ proc[p].dirty => g.backed
            /\ PartlyRewrittenBy(p) => (dir.backup # 0 /\ Backup = g.orig)

\* C6 as stated: after a Change command has returned Ok in the main process
\* no backup file remains.  Refuted: a failure of remove_backup is only a
\* warning, the command returns Ok and the backup stays.
C6_NoBackupAfterSuccess ==
    (cmd \in ChangeCmds /\ Main.pc = "done" /\ Main.out = "Ok") => dir.backup = 0

\* C6, amended: a Change command that returns Ok in the main process has
\* called remove_backup, and no backup file remains unless that removal
\* failed (which is only a warning).
C6_NoBackupAfterSuccessUnlessRemovalFails ==
    (cmd \in ChangeCmds /\ Main.pc = "done" /\ Main.out = "Ok") =>
        /\ Main.cleanup \in {"remove_backup_ok", "remove_backup_failed"}
        /\ Main.cleanup = "remove_backup_ok" => dir.backup = 0

C6_Witness ==
    /\ cmd = "Edit"
    /\ Main.pc = "done"
    /\ Main.out = "Ok"
    /\ Main.cleanup = "remove_backup_ok"
    /\ Main.ret = Main.target
    /\ Main.ret # g.orig
    /\ dir.backup = 0

\* C7: decrypting the stream that encrypt wrote, under the same header and
\* key, returns the plaintext: for the empty plaintext, one byte, one byte
\* less than a block, a block, and several blocks with and without a tail.
C7_RoundTrip ==
    (cphase = "opened" /\ calt.kind = "none" /\ cdkey = ckey) =>
        (cres.ok /\ cres.data = cplain)

C7_Witness ==
    /\ cphase = "opened"
    /\ calt.kind = "none"
    /\ cdkey = ckey
    /\ Len(cplain) = MaxBlocks * PLAIN_BLOCK_LEN + 1
    /\ cres.ok
    /\ cres.data = cplain

\* C8 as stated: a stream that lost one or more of its last sealed blocks is
\* rejected by decrypt with DecryptingBlock.  Refuted: no block is sealed as
\* the last one, so the blocks that are left decrypt to a prefix of the
\* plaintext.
C8_TruncationRejected ==
    (cphase = "opened" /\ calt.kind = "trunc") =>
        (~cres.ok /\ cres.err = "DecryptingBlock")

\* C9 as stated: decrypting a body under a key other than the one it was
\* written with fails with DecryptingBlock.  Refuted for the body of the
\* empty plaintext: it has no sealed block, and decrypt returns Ok with no
\* data under every key.
C9_WrongKeyRejected ==
    (cphase = "opened" /\ calt.kind = "none" /\ cdkey # ckey) =>
        (~cres.ok /\ cres.err = "DecryptingBlock")

\* C10: after one bit of one sealed block (ciphertext or tag) was flipped,
\* decrypt fails with DecryptingBlock at that block, and so returns no
\* plaintext.
C10_BitFlipRejected ==
    (cphase = "opened" /\ calt.kind = "flip") =>
        (~cres.ok /\ cres.err = "DecryptingBlock" /\ cres.at = calt.block)

C10_Witness ==
    /\ cphase = "opened"
    /\ calt.kind = "flip"
    /\ calt.block = MaxBlocks
    /\ ~cres.ok
    /\ cres.at = MaxBlocks

(***************************************************************************)
(* util/secret and the keys (SecretSpec).                                  *)
(***************************************************************************)
\* C11: every key derived from a password is owned by a Secret from its
\* derivation on, so that whenever the storage of a key is released its
\* bytes have been zeroed.  (over_encrypt keeps its key as a plain Key.)
C11_KeysErasedOnRelease ==
    \A r \in sreleased :
        r.was.t = "Key" => r.by = "Secret" /\ AllZero(r.obj)

C13_EraseEmpties ==
    sop[1] = "erase" =>
        /\ AllZero(sobj)
        /\ Len(sobj.b) = 0
        /\ Len(sobj.kids) = 0

\* C13 amended: after erase every byte the container held is zero; a byte
\* buffer and a string keep their length, a group keeps its members and
\* the length of its name; only a map with owned keys ends with no entry.
C13_EraseZeroesInPlace ==
    sop[1] = "erase" =>
        /\ AllZero(sobj)
        /\ sobj.t = sbefore.t
        /\ Len(sobj.b) = Len(sbefore.b)
        /\ Len(sobj.name) = Len(sbefore.name)
        /\ IF sbefore.t = "Map"
           THEN /\ sobj.kids = <<>>
                /\ Cardinality(sreleased) = Len(sbefore.kids)
                /\ \A r \in sreleased : AllZero(r.obj)
           ELSE /\ Len(sobj.kids) = Len(sbefore.kids)
                /\ \A i \in 1..Len(sobj.kids) : SameShape(sobj.kids[i], sbefore.kids[i])

\* a byte buffer of MaxLen bytes, none zero, was erased
C13_Witness ==
    /\ sop[1] = "erase"
    /\ sbefore.t = "Vec"
    /\ Len(sbefore.b) = MaxLen
    /\ ~AllZero(sbefore)

(***************************************************************************)
(* with_secured_mem (MemSpec).                                             *)
(***************************************************************************)
\* C14 as stated: a failure of secure_mem or of expose_mem never prevents
\* the file command from running and never changes its result.
C14_MemFailureNeverFatal ==
    mpc = "done" => (mresult # "none" /\ mout = mresult)

\* C14 amended: a failure of expose_mem only produces a warning, the result
\* of the file command is returned unchanged; a failure of secure_mem is
\* returned as SecuringMemory and the file command does not run.
C14_OnlyExposeFailureIsWarned ==
    mpc = "done" =>
        IF mresult = "none"
        THEN mout = "SecuringMemory" /\ mwarn = {}
        ELSE mout = mresult /\ mresult \in BodyResults

\* the file command returned Ok and expose_mem failed after it
C14_Witness ==
    /\ mpc = "done"
    /\ mresult = "Ok"
    /\ "ExposingMemory" \in mwarn
    /\ mout = "Ok"

(***************************************************************************)
(* The record tree (TreeSpec) and the lookups (FindSpec, FuzzySpec).       *)
(***************************************************************************)
\* C15: Group::insert of a child whose name is the name of a member returns
\* AlreadyExists (and only then), and leaves the members of the group and
\* the name, value and parent of the rejected child as they were.
C15_InsertRejectsDuplicate ==
    (tlast.op \in {"insert", "CreateGroup"} /\ tlast.child # 0) =>
        LET taken == tprev[tlast.group].members[tlast.child_before.name] # 0
        IN  /\ taken <=> (tlast.res \in {"AlreadyExists", "AddingRecord"})
            /\ taken =>
                 /\ tlast.child_after = tlast.child_before
                 /\ tnodes[tlast.group].members = tprev[tlast.group].members
                 /\ tnodes = tprev

\* an item with a value was rejected by a group that has a group of its name
C15_Witness ==
    /\ tlast.op = "insert"
    /\ tlast.res = "AlreadyExists"
    /\ tlast.child_before.kind = "Item"
    /\ tlast.child_before.value # <<>>
    /\ tnodes[tnodes[tlast.group].members[tlast.child_before.name]].kind = "Group"

C17_RootIsGroupAndStays ==
    /\ tnodes[troot].kind = "Group"
    /\ tnodes[troot].parent = 0
    /\ (tlast.op = "Remove" /\ tlast.child = troot) =>
         /\ tlast.res = "cannot remove root group"
         /\ tnodes = tprev

\* the root of a tree with other records was to be removed
C17_Witness ==
    /\ tlast.op = "Remove"
    /\ tlast.child = troot
    /\ Cardinality(Live(tnodes)) > 1

\* C18: get_fuzzy returns the child c exactly when c alone attains the
\* greatest score among the members that match, MultipleMatches exactly when
\* two or more attain it, NotFound exactly when no member matches, in
\* whatever order the members are visited.
C18_FuzzyPicksTheSingleBest ==
    (qres # NoLookup) =>
        LET hits == {i \in 1..Len(qms) : qms[i].hit}
            top == {i \in hits : \A j \in hits : qms[j].score <= qms[i].score}
        IN  /\ (hits = {}) <=> (qres.err = "NotFound")
            /\ (Cardinality(top) >= 2) <=> (qres.err = "MultipleMatches")
            /\ \A i \in 1..Len(qms) :
                 (qres.ok /\ qres.rec = qms[i].val) <=> (top = {i})

\* three members match, the two visited first tie for the greatest score
\* and the last scores less
C18_Witness ==
    /\ qres.err = "MultipleMatches"
    /\ Len(qms) = MaxMatches
    /\ \A i \in 1..Len(qms) : qms[i].hit
    /\ qms[1].score = qms[2].score
    /\ qms[3].score < qms[1].score

\* the elements of a path, told without the split: the maximal runs of
\* characters other than the delimiter, from left to right
Runs(path) ==
    {r \in (1..Len(path)) \X (1..Len(path)) :
        /\ r[1] <= r[2]
        /\ \A k \in r[1]..r[2] : path[k] # DELIM
        /\ (r[1] = 1 \/ path[r[1] - 1] = DELIM)
        /\ (r[2] = Len(path) \/ path[r[2] + 1] = DELIM)}
Segments(path) ==
    [k \in 1..Cardinality(Runs(path)) |->
        LET r == CHOOSE x \in Runs(path) :
                   Cardinality({y \in Runs(path) : y[1] < x[1]}) = k - 1
        IN  SubSeq(path, r[1], r[2])]
\* the record of the name s whose parent is the record `rec`, 0 if none
ChildNamed(nodes, rec, s) ==
    IF \E c \in Live(nodes) : nodes[c].parent = rec /\ nodes[c].name = s
    THEN CHOOSE c \in Live(nodes) : nodes[c].parent = rec /\ nodes[c].name = s
    ELSE 0
RECURSIVE Follow(_, _, _, _)
Follow(nodes, rec, segs, i) ==
    IF i > Len(segs) THEN [kind |-> "Ok", rec |-> rec, pat |-> <<>>, in_group |-> <<>>]
    ELSE IF nodes[rec].kind # "Group"
    THEN [kind |-> "NotAGroup", rec |-> rec, pat |-> segs[i], in_group |-> <<>>]
    ELSE IF ChildNamed(nodes, rec, segs[i]) = 0
    THEN [kind |-> "NotFound", rec |-> rec, pat |-> segs[i], in_group |-> nodes[rec].name]
    ELSE Follow(nodes, ChildNamed(nodes, rec, segs[i]), segs, i + 1)

\* C19: the exact resolution of a path from the root follows, element by
\* element, the child of that name; a path without elements gives the root;
\* a group without a child of the element's name gives NotFound with that
\* element and the name of the group.
C19_ExactResolution ==
    (tlast.op = "find" /\ tlast.mk = "Exact") =>
        LET e == Follow(tnodes, troot, Segments(tlast.path), 1)
            f == tlast.found
        IN  /\ e.kind = "Ok" => (f.ok /\ f.rec = e.rec)
            /\ Segments(tlast.path) = <<>> => (f.ok /\ f.rec = troot)
            /\ e.kind = "NotFound" =>
                 /\ ~f.ok
                 /\ f.err = "NotFound" /\ f.e = "NotFound"
                 /\ f.pat = e.pat
                 /\ f.in_group = e.in_group

\* a path of two elements was resolved to a record two levels below the root
C19_Witness ==
    /\ tlast.op = "find" /\ tlast.mk = "Exact"
    /\ tlast.found.ok
    /\ tlast.found.rec # troot
    /\ tnodes[tlast.found.rec].parent # troot
    /\ Len(tlast.path) = MaxPath

(***************************************************************************)
(* The names of the backups (BackupSpec).                                  *)
(***************************************************************************)
\* C20: backup_path_from gives two paths with different absolute forms
\* different backup paths.
C20_BackupNamesInjective ==
    \A i, j \in 1..Len(bcalls) :
        bcalls[i].abs # bcalls[j].abs => bcalls[i].backup # bcalls[j].backup

(***************************************************************************)
(* The clipboard child, the end of an edit session, the backups found at   *)
(* a start and the Create command (Spec).                                  *)
(***************************************************************************)
\* the steps of the rewrite of the primary
RewritePcs == {"w_clear", "w_header", "w_block"}

\* C23 as stated: the child forked by a clip command never rewrites the pass
\* file and never removes or recovers the backup, whether holding the
\* clipboard succeeds or fails in it.  Refuted: when securing memory or the
\* clipboard fails in the child, `clip(data)?` returns before the status is
\* set to Clipped, the child goes on with the session, and at its end it
\* rewrites the file and removes or recovers the backup.
C23_ChildNeverTouchesFiles ==
    /\ proc["child"].pc \notin RewritePcs
    /\ proc["child"].target = <<>>
    /\ proc["child"].cleanup \in {"none", "skipped"}

\* C24: a process whose edit session ended with the status Aborted or
\* Clipped does not rewrite the primary, whatever edits were made; a process
\* that rewrites the primary in an Edit command has the status Stopped.
C24_OnlyStoppedSessionSaves ==
    cmd = "Edit" =>
        \A p \in Procs :
            /\ proc[p].status \in {"Aborted", "Clipped"} =>
                  /\ proc[p].pc \notin RewritePcs
                  /\ proc[p].target = <<>>
                  /\ ~proc[p].dirty
            /\ (proc[p].pc \in RewritePcs \/ proc[p].target # <<>>) =>
                  proc[p].status = "Stopped"

\* the session of the main process was aborted after an edit and the command
\* has returned Ok: the primary holds its original bytes
C24_Witness ==
    /\ cmd = "Edit"
    /\ forks = 0
    /\ Main.pc = "done"
    /\ Main.status = "Aborted"
    /\ Main.out = "Ok"
    /\ Main.target = <<>>
    /\ Primary = g.orig

\* C25 as stated: when no command of an edit session changed the tree,
\* should_save_data is false at exit and the primary is not rewritten; told
\* command by command: a command that leaves the tree as it is leaves
\* changes_made as it is.  Refuted: move, copy, and a remove of which no
\* path is found, reach the end of EditCmd::exec, which sets changes_made.
C25_UnchangedTreeIsNotSaved ==
    [][\A p \in Procs :
          (/\ proc[p].pc = "tui" /\ proc'[p].pc = "tui"
           /\ proc'[p].ver = proc[p].ver)
          => proc'[p].changes_made = proc[p].changes_made]_vars

\* the first primary file of the model, before any command
FirstFiles == {PassFile(d, <<97>>, Header_generate(0)) : d \in {Doc(0), BadDoc}}

\* C28 as stated: a backup that exists when a command starts is a complete
\* copy of the primary as it was before the earlier command that made it
\* (here: when the second command starts, a copy of the first primary).
\* Refuted: make_backup that fails part-way, or is interrupted, leaves a
\* part of a copy at the backup path.
C28_BackupIsComplete ==
    (runs = 2 /\ g.stale) => g.bak0 \in FirstFiles

\* the primary when the body of the command starts: as the run found it, or
\* the backup that maybe_recover renamed over it
PrimaryAtBody == IF g.recovery = "recovered" THEN g.bak0 ELSE g.prim0

C27_NotAGroupCarriesMatchedElement ==
    (tlast.op = "find" /\ tlast.found.err = "NotAGroup") =>
        LET segs == Segments(tlast.path)
        IN  \E i \in 1..Len(segs) :
              LET before == find_elements_in(tnodes, troot, SubSeq(segs, 1, i - 1),
                                             tlast.mk)
              IN  /\ before.ok
                  /\ tnodes[before.rec].kind = "Item"
                  /\ tlast.found.name = tnodes[before.rec].name
                  /\ tlast.found.pat = IF tlast.mk = "Exact" \/ i = 1 THEN <<>>
                                       ELSE segs[i - 1]

C30_ResultIndependentOfReadSplit ==
    (dpc = "done" /\ dret.err # "ReadingBlock") =>
        LET whole == decrypt(dstream, dkey, dhead, FILE_READ_CAP)
        IN  /\ dret.ok = whole.ok
            /\ dret.data = whole.data

\* the plaintext chunk of block k of a plaintext, blocks counted from 0
PlainChunk(plain, k) == Take(Drop(plain, k * PLAIN_BLOCK_LEN), PLAIN_BLOCK_LEN)

Revalued(nodes) ==
    {[i \in NodeIds |-> IF nodes[i].kind = "Item"
                        THEN [nodes[i] EXCEPT !.value = v[i]] ELSE nodes[i]] :
       v \in [NodeIds -> Values]}

\* C22: what the listing and the tree rendering write is the same for every
\* tree that differs only in the values of its items, and the tree is as it
\* was before the rendering.
C22_RenderingHidesValues ==
    tlast.op \in ShowOps =>
        /\ tnodes = tprev
        /\ \A other \in Revalued(tnodes) :
             ReadCmd_show(other, troot, tlast.op, tlast.path, tlast.mk) = tlast.shown

\* the tree of a group with an item in it was rendered, the item by its name
C22_Witness ==
    /\ tlast.op = "Tree"
    /\ \E i \in NodeIds, j \in NodeIds :
         /\ tnodes[i].kind = "Item" /\ tnodes[i].value \in Values
         /\ tnodes[j].kind = "Group" /\ tnodes[i].parent = j /\ tnodes[j].parent = troot
         /\ \E k \in 1..Len(tlast.shown) :
              tlast.shown[k] = Piece("plain", tnodes[i].name)
         /\ \E k \in 1..Len(tlast.shown) :
              tlast.shown[k] = Piece("heading", tnodes[j].name)

====
